---- MODULE Spec2Model ----
(***************************************************************************)
(* Request validation / authorization pipeline of the social-media         *)
(* skeleton: the user store, the bearer tokens, the account lifecycle      *)
(* controllers (signup, signin, forgot/reset password) and the             *)
(* profile/directory controllers (update, delete, follow, unfollow).       *)
(* Every action is one HTTP request handled to completion: the route's     *)
(* middleware chain followed by its controller.                            *)
(***************************************************************************)
EXTENDS Integers, Sequences, FiniteSets, TLC

VARIABLES users, nextId, nextTok, now, jwts, limiter, pending, resp

vars == <<users, nextId, nextTok, now, jwts, limiter, pending, resp>>

(***************************************************************************)
(* Bounds of the model.                                                    *)
(***************************************************************************)
\* how many user documents are ever created
MaxUsers == 3
\* how many reset tokens crypto.randomBytes hands out
MaxResetTokens == 2
\* how many clock advances are explored
MaxTicks == 2
\* how many bearer tokens the clients keep
MaxJwts == 3
\* how many requests are in flight at the same time
MaxPending == 2

(***************************************************************************)
(* Program constants.                                                      *)
(***************************************************************************)
\* Date.now() + 3600000
ResetTtl == 3600000
\* expiresIn: "1h", in milliseconds
JwtTtl1h == 3600000
\* expiresIn: "7d", in milliseconds
JwtTtl7d == 604800000
\* newPassword.length < 8, minlength: [8, ...], isLength({ min: 8 })
MinPasswordLen == 8
\* newPassword.length > 64
MaxResetPasswordLen == 64

(***************************************************************************)
(* Strings are sequences of one-character strings, so that trimming,       *)
(* lower-casing and the regular expressions act on their characters.       *)
(***************************************************************************)
LowerChars == {"a", "b", "c", "d", "e", "l", "n", "o", "p", "r", "s", "w", "x"}
UpperChars == {"A", "B", "N", "O", "P", "X"}
DigitChars == {"1", "2", "3", "4"}
\* the class [@$!%*?&] of the strong-password pattern
SpecialChars == {"@", "$", "!"}
WhiteChars == {" "}

\* String.prototype.toLowerCase, one character
LowerChar(c) ==
    CASE c = "A" -> "a"
      [] c = "B" -> "b"
      [] c = "N" -> "n"
      [] c = "O" -> "o"
      [] c = "P" -> "p"
      [] c = "X" -> "x"
      [] OTHER -> c

\* a conversion that leaves capitals as they are
keepCase(s) == s

toLowerCase(s) == [i \in 1..Len(s) |-> LowerChar(s[i])]

RECURSIVE trimStart(_)
trimStart(s) ==
    IF s # <<>> /\ Head(s) \in WhiteChars THEN trimStart(Tail(s)) ELSE s

RECURSIVE trimEnd(_)
trimEnd(s) ==
    IF s # <<>> /\ s[Len(s)] \in WhiteChars
    THEN trimEnd(SubSeq(s, 1, Len(s) - 1))
    ELSE s

\* String.prototype.trim
trim(s) == trimEnd(trimStart(s))

\* /\s/.test(s)
HasWhitespace(s) == \E i \in 1..Len(s) : s[i] \in WhiteChars

\* /^\S+@\S+\.\S+$/.test(s)
MatchesEmail(s) ==
    /\ ~HasWhitespace(s)
    /\ \E i \in 2..Len(s) :
         /\ s[i] = "@"
         /\ \E j \in (i + 2)..(Len(s) - 1) : s[j] = "."

RECURSIVE Rep(_, _)
Rep(c, n) == IF n = 0 THEN <<>> ELSE <<c>> \o Rep(c, n - 1)

\* /^[^\s@]+@[^\s@]+\.[^\s@]+$/.test(s)
MatchesStrictEmail(s) ==
    /\ ~HasWhitespace(s)
    /\ Cardinality({i \in 1..Len(s) : s[i] = "@"}) = 1
    /\ \E i \in 2..Len(s) :
         /\ s[i] = "@"
         /\ \E j \in (i + 2)..(Len(s) - 1) : s[j] = "."

\* express-validator isEmail(): local@domain.tld, no empty label, an
\* alphabetic top-level domain of two letters or more
isEmail(s) ==
    /\ MatchesStrictEmail(s)
    /\ \A i \in 1..(Len(s) - 1) : ~(s[i] = "." /\ s[i + 1] = ".")
    /\ s[1] # "."
    /\ Len(s) >= 2
    /\ s[Len(s)] \in LowerChars \cup UpperChars
    /\ s[Len(s) - 1] \in LowerChars \cup UpperChars
    /\ \A i \in 1..(Len(s) - 1) : ~(s[i] = "@" /\ s[i + 1] = ".")

\* /^[A-Za-z0-9\s]+$/.test(name) || /^[\p{L}\p{N}\s-]+$/u.test(name)
NameFormatOk(name) ==
    /\ name # <<>>
    /\ \A i \in 1..Len(name) :
         name[i] \in LowerChars \cup UpperChars \cup DigitChars \cup WhiteChars \cup {"-"}

\* the strong-password validator of the template schema:
\* /^(?=.*[a-z])(?=.*[A-Z])(?=.*\d)(?=.*[@$!%*?&])[A-Za-z\d@$!%*?&]{8,}$/
StrongPassword(p) ==
    /\ \E i \in 1..Len(p) : p[i] \in LowerChars
    /\ \E i \in 1..Len(p) : p[i] \in UpperChars
    /\ \E i \in 1..Len(p) : p[i] \in DigitChars
    /\ \E i \in 1..Len(p) : p[i] \in SpecialChars
    /\ \A i \in 1..Len(p) :
         p[i] \in LowerChars \cup UpperChars \cup DigitChars \cup SpecialChars
    /\ Len(p) >= MinPasswordLen

(***************************************************************************)
(* Password hasher (bcryptjs).  A hash is the marker, the salt and the     *)
(* hashed text; it can be compared but never equals a plaintext.           *)
(***************************************************************************)
HashMarker == "$2a$10$"
Salts == {"salt1", "salt2"}

\* bcrypt.hash(plain, 10) with the salt the library draws
bcryptHash(plain, salt) == <<HashMarker, salt>> \o plain

\* bcrypt.compare(entered, stored)
bcryptCompare(entered, stored) ==
    /\ Len(stored) >= 2
    /\ stored[1] = HashMarker
    /\ stored[2] \in Salts
    /\ stored = bcryptHash(entered, stored[2])

(***************************************************************************)
(* The user store.  users maps the identifier of every stored document to  *)
(* the document.                                                           *)
(***************************************************************************)
\* a field that is not set (resetPasswordToken: String, no default)
Undefined == 0
\* a path parameter that is no ObjectId
MalformedId == 0

\* mongoose.Types.ObjectId.isValid(userId)
isValidObjectId(id) == id # MalformedId

Roles == {"user", "admin"}

\* followers and following: lists of user ids, empty by default
EmptyFollowList == <<>>

\* isPrivate: an account is public unless it is marked private
PublicByDefault == FALSE

\* new User({...}) with the schema defaults
NewUser(name, email, password, role, active) ==
    [name |-> name, email |-> email, password |-> password, role |-> role,
     active |-> active, bio |-> <<>>, profilePicture |-> "",
     resetPasswordToken |-> Undefined, resetPasswordExpires |-> Undefined,
     followers |-> EmptyFollowList, following |-> EmptyFollowList,
     isPrivate |-> PublicByDefault]

Exists(id) == id \in DOMAIN users

\* User.findOne({ email })
UsersByEmail(email) == {u \in DOMAIN users : users[u].email = email}

\* the store with document id written (inserted or replaced)
Put(store, id, doc) ==
    [u \in (DOMAIN store) \cup {id} |-> IF u = id THEN doc ELSE store[u]]

\* User.findByIdAndDelete(userId)
Remove(store, id) == [u \in (DOMAIN store) \ {id} |-> store[u]]

\* a pre-save hook that stores the password as it was assigned
preSaveNoHash(doc, passwordModified, salt) == doc

\* UserSchema.pre("save"): hash the password when it was modified
preSave(doc, passwordModified, salt) ==
    IF ~passwordModified THEN doc
    ELSE [doc EXCEPT !.password = bcryptHash(doc.password, salt)]

\* UserSchema.methods.comparePassword
comparePassword(doc, enteredPassword) ==
    bcryptCompare(enteredPassword, doc.password)

\* schema validation of a new document (backend schema)
SchemaValid(doc) ==
    /\ doc.name # <<>>
    /\ doc.email # <<>>
    /\ MatchesEmail(doc.email)
    /\ Len(doc.password) >= MinPasswordLen
    /\ doc.role \in Roles

(***************************************************************************)
(* Responses.  resp is the answer to the last request: its route, status   *)
(* and message, whether the route's controller was entered, and the user   *)
(* documents its body carries.                                             *)
(***************************************************************************)
\* a field the body leaves out
Withheld == <<>>

\* a user document as a body carries it: its id, name and email, and its
\* password field when the document is serialised whole
Serialized(id, doc, whole) ==
    [id |-> id, name |-> doc.name, email |-> doc.email,
     password |-> IF whole THEN doc.password ELSE Withheld]

Response(op, status, message, ctrl) ==
    [op |-> op, status |-> status, message |-> message, ctrl |-> ctrl,
     body |-> {}]

\* the answer of a controller whose body carries user documents
ResponseWith(op, status, message, docs) ==
    [Response(op, status, message, TRUE) EXCEPT !.body = docs]

ClientAddresses == {"ip1", "ip2"}

Init ==
    /\ users = <<>>
    /\ nextId = 1
    /\ nextTok = 1
    /\ now = 0
    /\ jwts = {}
    /\ limiter = [ip \in ClientAddresses |-> [count |-> 0, resetTime |-> 0]]
    /\ pending = {}
    /\ resp = Response("none", 0, "", FALSE)

(***************************************************************************)
(* Bearer tokens (jsonwebtoken).  jwts is the set of tokens the server has *)
(* signed and the clients still hold.  idf is the payload field that       *)
(* carries the subject: "id" or "userId".                                  *)
(***************************************************************************)
Jwt(kind, idf, sub, role, exp) ==
    [kind |-> kind, idf |-> idf, sub |-> sub, role |-> role, exp |-> exp]

\* jwt.sign(payload, JWT_SECRET, { expiresIn })
jwtSign(idf, sub, role, ttl) == Jwt("signed", idf, sub, role, now + ttl)

\* a verification that checks the signature and not the expiry
jwtVerifyNoExpiry(tok) == tok.kind = "signed"

\* jwt.verify(token, JWT_SECRET) does not throw
jwtVerify(tok) == tok.kind = "signed" /\ now < tok.exp

\* decoded.id
decodedId(tok) == IF tok.idf = "id" THEN tok.sub ELSE Undefined

\* no Authorization header, or one that carries no bearer token
NoBearer == Jwt("none", "id", Undefined, "none", 0)
\* a bearer string that is no JWT
MalformedBearer == Jwt("malformed", "id", Undefined, "none", 0)
\* tokens signed with another secret, whatever they claim
ForgedBearers ==
    {Jwt("badsig", "id", u, "admin", now + JwtTtl1h) : u \in 1..MaxUsers}

\* what a client can put in the Authorization header
Bearers == jwts \cup {NoBearer, MalformedBearer} \cup ForgedBearers

\* the client keeps the token it was sent, while it has room
Keep(tok) == IF Cardinality(jwts) < MaxJwts THEN jwts \cup {tok} ELSE jwts

\* protect: pass is "next() was called", user is req.user (Undefined: null)
protect(tok) ==
    IF tok.kind = "none"
    THEN [pass |-> FALSE, status |-> 401,
          message |-> "Not authorized, no token provided", user |-> Undefined]
    ELSE IF ~jwtVerify(tok)
    THEN [pass |-> FALSE, status |-> 401,
          message |-> "Invalid token, authentication failed", user |-> Undefined]
    ELSE [pass |-> TRUE, status |-> 200, message |-> "",
          user |-> IF Exists(decodedId(tok)) THEN decodedId(tok) ELSE Undefined]

\* the answer of a route whose protect middleware did not call next()
Denied(op, tok) ==
    /\ resp' = Response(op, protect(tok).status, protect(tok).message, FALSE)
    /\ UNCHANGED <<users, nextId, nextTok, now, jwts, limiter, pending>>

(***************************************************************************)
(* The clock.                                                              *)
(***************************************************************************)
TickSteps == {1, ResetTtl - 1}

\* the clock advances so far: now is a sum of steps 1 and ResetTtl - 1
TicksTaken == (now \div (ResetTtl - 1)) + (now % (ResetTtl - 1))

Tick(d) ==
    /\ TicksTaken < MaxTicks
    /\ now' = now + d
    /\ UNCHANGED <<users, nextId, nextTok, jwts, limiter, pending, resp>>

(***************************************************************************)
(* Documents written directly through the model, as the fixtures do        *)
(* (User.create with a role and an active flag).                           *)
(***************************************************************************)
createUser(name, email, password, role, active, salt) ==
    LET doc == NewUser(trim(name), toLowerCase(trim(email)), password, role, active)
    IN  /\ nextId <= MaxUsers
        /\ SchemaValid(doc)
        /\ UsersByEmail(doc.email) = {}
        /\ users' = Put(users, nextId, preSave(doc, TRUE, salt))
        /\ nextId' = nextId + 1
        /\ resp' = Response("create", 0, "", FALSE)
        /\ UNCHANGED <<nextTok, now, jwts, limiter, pending>>

\* User.create({ ..., isPrivate: true })
createPrivateUser(name, email, password, salt) ==
    LET doc == [NewUser(trim(name), toLowerCase(trim(email)), password, "user", TRUE)
                    EXCEPT !.isPrivate = TRUE]
    IN  /\ nextId <= MaxUsers
        /\ SchemaValid(doc)
        /\ UsersByEmail(doc.email) = {}
        /\ users' = Put(users, nextId, preSave(doc, TRUE, salt))
        /\ nextId' = nextId + 1
        /\ resp' = Response("create", 0, "", FALSE)
        /\ UNCHANGED <<nextTok, now, jwts, limiter, pending>>

(***************************************************************************)
(* POST /api/auth/signup: validateSignupRequest, registerUser              *)
(***************************************************************************)
NameMaxLen == 255

\* a validation chain without the rule on the length of the password
validateSignupRequestNoLength(name, email, password) ==
    /\ trim(name) # <<>>
    /\ Len(trim(name)) <= NameMaxLen
    /\ trim(email) # <<>>
    /\ isEmail(trim(email))
    /\ trim(password) # <<>>

\* validateSignupRequest reports no error; the sanitizers trim the fields
validateSignupRequest(name, email, password) ==
    /\ trim(name) # <<>>
    /\ Len(trim(name)) <= NameMaxLen
    /\ trim(email) # <<>>
    /\ isEmail(trim(email))
    /\ trim(password) # <<>>
    /\ Len(trim(password)) >= MinPasswordLen

registerUser(name, email, password, salt) ==
    LET sName == trim(name)
        sPassword == trim(password)
        normalizedEmail == trim(toLowerCase(trim(email)))
        doc == NewUser(trim(sName), normalizedEmail, sPassword, "user", TRUE)
        Answer(status, message, ctrl) ==
            /\ resp' = Response("signup", status, message, ctrl)
            /\ UNCHANGED <<users, nextId, nextTok, now, jwts, limiter, pending>>
    IN  IF ~validateSignupRequest(name, email, password)
        THEN Answer(400, "Failed Validation", FALSE)
        ELSE IF UsersByEmail(normalizedEmail) # {}
        THEN Answer(400, "This email is already in use. Try logging in instead.", TRUE)
        ELSE IF ~NameFormatOk(sName)
        THEN Answer(400, "Invalid name format. Name can contain letters, numbers, and spaces.", TRUE)
        ELSE IF ~SchemaValid(doc)
        THEN Answer(500, "Server error. Please try again later.", TRUE)
        ELSE /\ nextId <= MaxUsers
             /\ users' = Put(users, nextId, preSave(doc, TRUE, salt))
             /\ nextId' = nextId + 1
             /\ jwts' = Keep(jwtSign("id", nextId, "user", JwtTtl1h))
             /\ resp' = ResponseWith("signup", 201, "User registered successfully.",
                                     {Serialized(nextId, doc, FALSE)})
             /\ UNCHANGED <<nextTok, now, limiter, pending>>

\* registerUser from newUser.save() on, for a request whose findOne ran before
\* another request stored the same address: the unique index refuses the
\* save, and the catch answers 500
registerUserLateSave(name, email, password, salt) ==
    LET sName == trim(name)
        normalizedEmail == trim(toLowerCase(trim(email)))
        doc == NewUser(trim(sName), normalizedEmail, trim(password), "user", TRUE)
    IN  /\ validateSignupRequest(name, email, password)
        /\ NameFormatOk(sName)
        /\ SchemaValid(doc)
        /\ UsersByEmail(normalizedEmail) # {}
        /\ resp' = Response("signup", 500, "Server error. Please try again later.",
                            TRUE)
        /\ UNCHANGED <<users, nextId, nextTok, now, jwts, limiter, pending>>

(***************************************************************************)
(* POST /api/auth/signin: validateSigninRequest, signInUser                *)
(***************************************************************************)
EmailMaxLen == 254

validateSigninRequest(email, password) ==
    /\ trim(email) # <<>>
    /\ Len(trim(email)) <= EmailMaxLen
    /\ isEmail(trim(email))
    /\ trim(password) # <<>>

\* User.findOne(query): the first matching document
FirstOf(ids) == CHOOSE u \in ids : \A v \in ids : u <= v

\* generateToken(userId, role, expiration)
generateToken(userId, role, ttl) == jwtSign("userId", userId, role, ttl)

\* the status signInUser answers for these credentials, by the stored users
signInStatusIn(store, email, password) ==
    LET normalizedEmail == trim(toLowerCase(trim(email)))
        found == {u \in DOMAIN store : store[u].email = normalizedEmail}
    IN  IF ~validateSigninRequest(email, password) THEN 400
        ELSE IF found = {} THEN 404
        ELSE IF ~comparePassword(store[FirstOf(found)], trim(password)) THEN 401
        ELSE 200

signInStatus(email, password) == signInStatusIn(users, email, password)

signInUser(email, password, rememberMe) ==
    LET normalizedEmail == trim(toLowerCase(trim(email)))
        found == UsersByEmail(normalizedEmail)
        status == signInStatus(email, password)
        expiration == IF rememberMe THEN JwtTtl7d ELSE JwtTtl1h
    IN  /\ resp' = [Response("signin", status,
                     CASE status = 400 -> "Failed Validation"
                       [] status = 404 -> "No account found with this email. Sign up instead?"
                       [] status = 401 -> "Incorrect password. Try again."
                       [] OTHER -> "Welcome back",
                     status # 400)
                     EXCEPT !.body =
                        IF status = 200
                        THEN {Serialized(FirstOf(found), users[FirstOf(found)], FALSE)}
                        ELSE @]
        /\ jwts' = IF status = 200
                   THEN Keep(generateToken(FirstOf(found),
                                           users[FirstOf(found)].role, expiration))
                   ELSE jwts
        /\ UNCHANGED <<users, nextId, nextTok, now, limiter, pending>>

(***************************************************************************)
(* POST /api/auth/reset-password: validateForgotPasswordRequest,           *)
(* resetPasswordLimiter, forgotPassword                                    *)
(***************************************************************************)
\* windowMs: 60 * 1000
RateWindowMs == 60000
\* max: 3
RateLimitMax == 3

validateForgotPasswordRequest(email) ==
    /\ trim(email) # <<>>
    /\ Len(trim(email)) <= EmailMaxLen
    /\ isEmail(trim(email))

\* the limiter's record of a client address after one more request
Hit(ip) ==
    IF now >= limiter[ip].resetTime
    THEN [count |-> 1, resetTime |-> now + RateWindowMs]
    ELSE [count |-> limiter[ip].count + 1, resetTime |-> limiter[ip].resetTime]

\* a limiter that lets one request more through
AdmittedOneMore(ip) == Hit(ip).count <= RateLimitMax + 1

\* resetPasswordLimiter lets the request through
Admitted(ip) == Hit(ip).count <= RateLimitMax

\* the limiter counts every request it sees, up to the first refused one
Counted(ip) ==
    [limiter EXCEPT ![ip] =
        IF Hit(ip).count <= RateLimitMax + 1 THEN Hit(ip) ELSE limiter[ip]]

forgotPassword(ip, email, mailSent) ==
    LET normalizedEmail == toLowerCase(trim(trim(email)))
        found == UsersByEmail(normalizedEmail)
        u == FirstOf(found)
        Answer(status, message, ctrl) ==
            /\ resp' = Response("forgotPassword", status, message, ctrl)
            /\ UNCHANGED <<users, nextId, nextTok, now, jwts, pending>>
    IN  IF ~validateForgotPasswordRequest(email)
        THEN Answer(400, "Failed Validation", FALSE) /\ UNCHANGED limiter
        ELSE /\ limiter' = Counted(ip)
             /\ IF ~Admitted(ip)
                THEN Answer(429, "Too many requests. Please try again later.", FALSE)
                ELSE IF found = {}
                THEN Answer(404, "No account found with this email.", TRUE)
                ELSE /\ nextTok <= MaxResetTokens
                     /\ users' = [users EXCEPT
                                    ![u].resetPasswordToken = nextTok,
                                    ![u].resetPasswordExpires = now + ResetTtl]
                     /\ nextTok' = nextTok + 1
                     /\ resp' = IF mailSent
                                THEN Response("forgotPassword", 200,
                                       "Password reset email sent. Check your inbox.",
                                       TRUE)
                                ELSE Response("forgotPassword", 500,
                                       "Server error. Please try again later.",
                                       TRUE)
                     /\ UNCHANGED <<nextId, now, jwts, pending>>

(***************************************************************************)
(* POST /api/auth/reset-password/:token: resetPassword                     *)
(***************************************************************************)
\* a token parameter that was never issued
UnknownResetToken == -1

\* a lookup that still accepts a token at the instant it expires ($gte)
UsersByResetTokenInclusive(token) ==
    {u \in DOMAIN users :
        /\ users[u].resetPasswordToken # Undefined
        /\ users[u].resetPasswordToken = token
        /\ users[u].resetPasswordExpires # Undefined
        /\ users[u].resetPasswordExpires >= now}

\* User.findOne({ resetPasswordToken: token,
\*                resetPasswordExpires: { $gt: Date.now() } })
UsersByResetToken(token) ==
    {u \in DOMAIN users :
        /\ users[u].resetPasswordToken # Undefined
        /\ users[u].resetPasswordToken = token
        /\ users[u].resetPasswordExpires # Undefined
        /\ users[u].resetPasswordExpires > now}

\* the checks of newPassword without the whitespace test
newPasswordErrorNoSpaceTest(newPassword) ==
    IF newPassword = <<>> THEN "New password is required."
    ELSE IF Len(newPassword) < MinPasswordLen
    THEN "Password must be at least 8 characters long."
    ELSE IF Len(newPassword) > MaxResetPasswordLen
    THEN "Password is too long. Max length is 64 characters."
    ELSE ""

\* the message of the first check newPassword fails, "" when it passes all
newPasswordError(newPassword) ==
    IF newPassword = <<>> THEN "New password is required."
    ELSE IF Len(newPassword) < MinPasswordLen
    THEN "Password must be at least 8 characters long."
    ELSE IF Len(newPassword) > MaxResetPasswordLen
    THEN "Password is too long. Max length is 64 characters."
    ELSE IF HasWhitespace(newPassword) THEN "Password cannot contain spaces."
    ELSE ""

\* the status resetPassword answers for this token and password
resetStatus(token, newPassword) ==
    IF newPasswordError(newPassword) # "" THEN 400
    ELSE IF UsersByResetToken(token) = {} THEN 400
    ELSE IF ~users[FirstOf(UsersByResetToken(token))].active THEN 400
    ELSE 200

resetPassword(token, newPassword, salt) ==
    LET found == UsersByResetToken(token)
        u == FirstOf(found)
        doc == [users[u] EXCEPT !.password = newPassword,
                                !.resetPasswordToken = Undefined,
                                !.resetPasswordExpires = Undefined]
        Answer(status, message) ==
            /\ resp' = Response("resetPassword", status, message, TRUE)
            /\ UNCHANGED users
    IN  /\ IF newPasswordError(newPassword) # ""
           THEN Answer(400, newPasswordError(newPassword))
           ELSE IF found = {}
           THEN Answer(400, "Invalid or expired password reset token.")
           ELSE IF ~users[u].active
           THEN Answer(400, "User is inactive or deleted.")
           ELSE /\ users' = Put(users, u,
                                preSave(doc, doc.password # users[u].password, salt))
                /\ resp' = Response("resetPassword", 200,
                             "Password reset successfully. You can now sign in.",
                             TRUE)
        /\ UNCHANGED <<nextId, nextTok, now, jwts, limiter, pending>>

\* resetPassword of userController.js: the controller hashes the new password
\* itself and saves; the pre-save hook then sees a modified password
resetPasswordHashing(token, newPassword, salt, hookSalt) ==
    LET found == UsersByResetToken(token)
        u == FirstOf(found)
        doc == [users[u] EXCEPT !.password = bcryptHash(newPassword, salt),
                                !.resetPasswordToken = Undefined,
                                !.resetPasswordExpires = Undefined]
    IN  /\ IF found = {}
           THEN /\ resp' = Response("resetPasswordHashing", 400,
                                    "Invalid or expired password reset token.",
                                    TRUE)
                /\ UNCHANGED users
           ELSE /\ users' = Put(users, u,
                                preSave(doc, doc.password # users[u].password,
                                        hookSalt))
                /\ resp' = Response("resetPasswordHashing", 200,
                             "Password reset successfully. You can now sign in.",
                             TRUE)
        /\ UNCHANGED <<nextId, nextTok, now, jwts, limiter, pending>>

(***************************************************************************)
(* Template variant: POST /auth/signup (registerUser) and POST /auth/signin *)
(* (loginUser), with the template's schema.                                 *)
(***************************************************************************)
\* validation of a new document by the template schema, after its setters
TemplateSchemaValid(doc) ==
    /\ doc.name # <<>>
    /\ Len(doc.name) <= NameMaxLen
    /\ doc.email # <<>>
    /\ MatchesStrictEmail(doc.email)
    /\ Len(doc.email) <= NameMaxLen
    /\ Len(doc.password) >= MinPasswordLen
    /\ StrongPassword(doc.password)
    /\ doc.role \in Roles

\* role is "" when the body has none
templateRegisterUser(name, email, password, role, salt) ==
    LET theRole == IF role = "" THEN "user" ELSE role
        doc == NewUser(trim(name), toLowerCase(trim(email)), password, theRole, TRUE)
        Answer(status, message) ==
            /\ resp' = Response("templateSignup", status, message, TRUE)
            /\ UNCHANGED <<users, nextId, nextTok, now, jwts, limiter, pending>>
    IN  IF name = <<>> \/ email = <<>> \/ password = <<>>
        THEN Answer(400, "Name, Email or Password is required")
        ELSE IF theRole \notin Roles
        THEN Answer(400, "Invalid role specified")
        ELSE IF UsersByEmail(email) # {}
        THEN Answer(400, "User already exists")
        ELSE IF ~TemplateSchemaValid(doc)
        THEN Answer(400, "ValidationError")
        ELSE IF UsersByEmail(doc.email) # {}
        THEN Answer(400, "Invalid user data")
        ELSE /\ nextId <= MaxUsers
             /\ users' = Put(users, nextId, preSave(doc, TRUE, salt))
             /\ nextId' = nextId + 1
             /\ resp' = Response("templateSignup", 201,
                                 "User registered successfully", TRUE)
             /\ UNCHANGED <<nextTok, now, jwts, limiter, pending>>

\* loginUser's checks of the body report no error
loginInputOk(email, password) ==
    /\ email # <<>>
    /\ password # <<>>
    /\ MatchesStrictEmail(trim(email))
    /\ Len(trim(email)) <= NameMaxLen
    /\ \A i \in 1..(Len(email) - 1) : ~(email[i] = "." /\ email[i + 1] = ".")

\* a login that tells an unknown address from a wrong password
loginAnswerTelling(store, email, password) ==
    LET found == {u \in DOMAIN store : store[u].email = toLowerCase(trim(email))}
        u == FirstOf(found)
    IN  IF ~loginInputOk(email, password)
        THEN Response("login", 400, "Invalid login input", TRUE)
        ELSE IF found = {}
        THEN Response("login", 404, "User not found", TRUE)
        ELSE IF ~comparePassword(store[u], password)
        THEN Response("login", 401, "Invalid credentials", TRUE)
        ELSE ResponseWith("login", 200, "Login successful",
                          {Serialized(u, store[u], TRUE)})

\* what loginUser answers for these credentials, by the stored users
loginAnswer(store, email, password) ==
    LET found == {u \in DOMAIN store : store[u].email = toLowerCase(trim(email))}
        u == FirstOf(found)
    IN  IF ~loginInputOk(email, password)
        THEN Response("login", 400, "Invalid login input", TRUE)
        ELSE IF found = {} \/ ~comparePassword(store[u], password)
        THEN Response("login", 401, "Invalid credentials", TRUE)
        ELSE ResponseWith("login", 200, "Login successful",
                          {Serialized(u, store[u], TRUE)})

loginUser(email, password) ==
    LET found == UsersByEmail(toLowerCase(trim(email)))
        u == FirstOf(found)
    IN  /\ resp' = loginAnswer(users, email, password)
        /\ jwts' = IF loginAnswer(users, email, password).status = 200
                   THEN Keep(jwtSign("id", u, users[u].role, JwtTtl1h))
                   ELSE jwts
        /\ UNCHANGED <<users, nextId, nextTok, now, limiter, pending>>

(***************************************************************************)
(* Routes behind protect.  Each action is protect followed, when protect   *)
(* calls next(), by the rest of the chain.  A controller that reads        *)
(* req.user.id while req.user is null throws, and its catch answers 500.   *)
(***************************************************************************)
BioMaxLen == 150

\* a role taken from the token's payload
roleOfToken(tok, user) == tok.role

\* req.user.role: the role of the document protect loaded
roleOfRequester(tok, user) == users[user].role

\* GET /api/users/:userId: protect, getUserById
getUserById(tok, userId) ==
    LET p == protect(tok)
        Answer(status, message) ==
            /\ resp' = [Response("getUserById", status, message, TRUE)
                          EXCEPT !.body = IF status = 200
                                          THEN {Serialized(userId, users[userId], FALSE)}
                                          ELSE @]
            /\ UNCHANGED <<users, nextId, nextTok, now, jwts, limiter, pending>>
    IN  IF ~p.pass THEN Denied("getUserById", tok)
        ELSE IF p.user = Undefined THEN Answer(500, "Server error")
        ELSE IF roleOfRequester(tok, p.user) # "admin" /\ userId # p.user
        THEN Answer(403, "Access denied")
        ELSE IF ~isValidObjectId(userId) THEN Answer(404, "User not found")
        ELSE IF ~Exists(userId) THEN Answer(404, "User not found")
        ELSE Answer(200, "")

\* an ownership check that lets everybody through
isOwnerAlways(userId, authUserId) == TRUE

\* userId === authUserId: the authenticated user acts on their own profile
isOwner(userId, authUserId) == userId = authUserId

\* a check that lets every authenticated user through
selfOrAdminAlways(requesterId, requesterRole, userId) == TRUE

\* requesterId === userId || requesterRole === "admin"
selfOrAdmin(requesterId, requesterRole, userId) ==
    requesterId = userId \/ requesterRole = "admin"

\* the fields updateUser sets: a field of the body that is empty is skipped
updateFields(doc, body, upload, salt) ==
    [doc EXCEPT
        !.name = IF body.name # <<>> THEN body.name ELSE @,
        !.email = IF body.email # <<>> THEN toLowerCase(trim(body.email)) ELSE @,
        !.bio = IF body.bio # <<>> THEN body.bio ELSE @,
        !.password = IF body.password # <<>>
                     THEN bcryptHash(body.password, salt) ELSE @,
        !.profilePicture = IF upload = "image" THEN "/uploads/file" ELSE @]

\* PUT /api/users/:userId: protect, uploadMiddleware, updateUser (self only).
\* upload is "none", "image" (accepted) or "rejected" (a MulterError).
updateUser(tok, userId, body, upload, salt) ==
    LET p == protect(tok)
        updated == updateFields(users[userId], body, upload, salt)
        Answer(status, message, ctrl) ==
            /\ resp' = Response("updateUser", status, message, ctrl)
            /\ UNCHANGED <<users, nextId, nextTok, now, jwts, limiter, pending>>
    IN  IF ~p.pass THEN Denied("updateUser", tok)
        ELSE IF upload = "rejected"
        THEN Answer(400, "Invalid file type. Only JPG and PNG are allowed.", FALSE)
        ELSE IF p.user = Undefined THEN Answer(500, "Internal Server Error", TRUE)
        ELSE IF ~isOwner(userId, p.user)
        THEN Answer(403, "Unauthorized to update this profile.", TRUE)
        ELSE IF body.email # <<>> /\ ~MatchesEmail(trim(body.email))
        THEN Answer(400, "Invalid email format.", TRUE)
        ELSE IF body.password # <<>> /\ Len(body.password) < MinPasswordLen
        THEN Answer(400, "Password must be at least 8 characters long.", TRUE)
        ELSE IF ~isValidObjectId(userId)
        THEN Answer(500, "Internal Server Error", TRUE)
        ELSE IF ~Exists(userId) THEN Answer(404, "User not found.", TRUE)
        ELSE IF Len(updated.bio) > BioMaxLen
                \/ UsersByEmail(updated.email) \ {userId} # {}
        THEN Answer(500, "Internal Server Error", TRUE)
        ELSE /\ users' = Put(users, userId, updated)
             /\ resp' = ResponseWith("updateUser", 200,
                                     "Profile updated successfully.",
                                     {Serialized(userId, updated, FALSE)})
             /\ UNCHANGED <<nextId, nextTok, now, jwts, limiter, pending>>

\* the fields the template's $set writes: the schema's paths, through its
\* setters; role is "" when the body has none
templateUpdateFields(doc, body) ==
    [doc EXCEPT
        !.name = IF body.name # <<>> THEN trim(body.name) ELSE @,
        !.email = IF body.email # <<>> THEN toLowerCase(trim(body.email)) ELSE @,
        !.role = IF body.role # "" THEN body.role ELSE @]

\* a check that finds no restricted field
restrictedNever(body) == FALSE

\* updateData.password: the body carries a restricted field
restricted(body) == body.password # <<>>

\* delete updateData._id
withoutId(body) == [f \in (DOMAIN body) \ {"_id"} |-> body[f]]

\* PUT /api/users/:userId of the template: protect, updateUser
\* (self or admin, the password is a restricted field)
templateUpdateUser(tok, userId, body) ==
    LET p == protect(tok)
        updated == templateUpdateFields(users[userId], withoutId(body))
        Answer(status, message) ==
            /\ resp' = Response("templateUpdateUser", status, message, TRUE)
            /\ UNCHANGED <<users, nextId, nextTok, now, jwts, limiter, pending>>
    IN  IF ~p.pass THEN Denied("templateUpdateUser", tok)
        ELSE IF ~isValidObjectId(userId) THEN Answer(400, "Invalid user ID")
        ELSE IF p.user = Undefined THEN Answer(500, "Server error")
        ELSE IF ~selfOrAdmin(p.user, roleOfRequester(tok, p.user), userId)
        THEN Answer(403, "Access denied")
        ELSE IF restricted(body) THEN Answer(400, "Password update not allowed")
        ELSE IF ~Exists(userId) THEN Answer(404, "User not found")
        ELSE IF ~(/\ Len(updated.name) <= NameMaxLen
                  /\ MatchesStrictEmail(updated.email)
                  /\ updated.role \in Roles)
        THEN Answer(400, "ValidationError")
        ELSE IF UsersByEmail(updated.email) \ {userId} # {}
        THEN Answer(500, "Server error")
        ELSE /\ users' = Put(users, userId, updated)
             /\ resp' = ResponseWith("templateUpdateUser", 200,
                                     "User updated successfully",
                                     {Serialized(userId, updated, TRUE)})
             /\ UNCHANGED <<nextId, nextTok, now, jwts, limiter, pending>>

\* the message of a successful deleteUser
deleteMessage(requesterId, userId) ==
    IF requesterId = userId THEN "Your account has been deleted"
    ELSE "User deleted successfully"

\* a deleteUser that removes the user of the path for whoever passed protect
deleteUserUnguarded(tok, userId) ==
    IF protect(tok).pass /\ Exists(userId)
    THEN /\ users' = Remove(users, userId)
         /\ resp' = Response("deleteUser", 200, "User deleted successfully", TRUE)
         /\ UNCHANGED <<nextId, nextTok, now, jwts, limiter, pending>>
    ELSE Denied("deleteUser", tok)

\* DELETE /api/users/:userId: protect, deleteUser
deleteUser(tok, userId) ==
    LET p == protect(tok)
        Answer(status, message) ==
            /\ resp' = Response("deleteUser", status, message, TRUE)
            /\ UNCHANGED <<users, nextId, nextTok, now, jwts, limiter, pending>>
    IN  IF ~p.pass THEN Denied("deleteUser", tok)
        ELSE IF p.user = Undefined THEN Answer(500, "Server error")
        ELSE IF ~isValidObjectId(userId) THEN Answer(400, "Invalid user ID")
        ELSE IF ~selfOrAdmin(p.user, roleOfRequester(tok, p.user), userId)
        THEN Answer(403, "Access denied")
        ELSE IF ~Exists(userId) THEN Answer(404, "User not found")
        ELSE /\ users' = Remove(users, userId)
             /\ resp' = Response("deleteUser", 200, deleteMessage(p.user, userId),
                                 TRUE)
             /\ UNCHANGED <<nextId, nextTok, now, jwts, limiter, pending>>

(***************************************************************************)
(* GET /api/auth/signout: protect, logoutUser; GET /auth/signout of the    *)
(* template: logoutUser.  The token is verified and the cookie cleared.    *)
(***************************************************************************)
\* a signout that takes the token away from its holder
logoutUserRevoking(tok) ==
    /\ resp' = IF protect(tok).pass
               THEN Response("logout", 200, "User signed out successfully", TRUE)
               ELSE Response("logout", protect(tok).status, protect(tok).message,
                             FALSE)
    /\ jwts' = IF protect(tok).pass THEN jwts \ {tok} ELSE jwts
    /\ UNCHANGED <<users, nextId, nextTok, now, limiter, pending>>

logoutUser(tok) ==
    LET p == protect(tok)
        Answer(status, message) ==
            /\ resp' = Response("logout", status, message, TRUE)
            /\ UNCHANGED <<users, nextId, nextTok, now, jwts, limiter, pending>>
    IN  IF ~p.pass THEN Denied("logout", tok)
        ELSE IF tok.kind = "none" THEN Answer(401, "No token provided")
        ELSE IF ~jwtVerify(tok) THEN Answer(401, "Invalid or expired token")
        ELSE Answer(200, "User signed out successfully")

templateLogoutUser(tok) ==
    LET Answer(status, message) ==
            /\ resp' = Response("templateLogout", status, message, TRUE)
            /\ UNCHANGED <<users, nextId, nextTok, now, jwts, limiter, pending>>
    IN  IF tok.kind = "none" THEN Answer(401, "No token provided")
        ELSE IF ~jwtVerify(tok) THEN Answer(401, "Invalid or expired token")
        ELSE Answer(200, "User signed out successfully")

(***************************************************************************)
(* POST and DELETE /api/follow/:userId: protect, followUser / unfollowUser *)
(***************************************************************************)
\* a membership test that finds nothing
includesNever(list, id) == FALSE

\* a membership test that finds everything
includesAlways(list, id) == TRUE

\* Array.prototype.includes
includes(list, id) == \E i \in 1..Len(list) : list[i] = id

\* list.push(id)
push(list, id) == Append(list, id)

\* list.filter((x) => x.toString() !== id)
RECURSIVE without(_, _)
without(list, id) ==
    IF list = <<>> THEN <<>>
    ELSE IF Head(list) = id THEN without(Tail(list), id)
    ELSE <<Head(list)>> \o without(Tail(list), id)

followedOneSide(store, currentUserId, userId) ==
    [store EXCEPT ![currentUserId].following = push(@, userId)]

\* the store after currentUser.save() and userToFollow.save()
followed(store, currentUserId, userId) ==
    [store EXCEPT ![currentUserId].following = push(@, userId),
                  ![userId].followers = push(@, currentUserId)]

\* an unfollow that saves the current user only
unfollowedOneSide(store, currentUserId, userId) ==
    [store EXCEPT ![currentUserId].following = without(@, userId)]

\* the store after currentUser.save() and userToUnfollow.save()
unfollowed(store, currentUserId, userId) ==
    [store EXCEPT ![currentUserId].following = without(@, userId),
                  ![userId].followers = without(@, currentUserId)]

isSelfNever(userId, currentUserId) == FALSE

\* userId === currentUserId
isSelf(userId, currentUserId) == userId = currentUserId

followUser(tok, userId) ==
    LET p == protect(tok)
        Answer(status, message) ==
            /\ resp' = Response("followUser", status, message, TRUE)
            /\ UNCHANGED <<users, nextId, nextTok, now, jwts, limiter, pending>>
    IN  IF ~p.pass THEN Denied("followUser", tok)
        ELSE IF p.user = Undefined THEN Answer(500, "Internal Server Error.")
        ELSE IF isSelf(userId, p.user) THEN Answer(400, "You cannot follow yourself.")
        ELSE IF ~isValidObjectId(userId) THEN Answer(500, "Internal Server Error.")
        ELSE IF ~Exists(userId) THEN Answer(404, "User not found.")
        ELSE IF includes(users[p.user].following, userId)
        THEN Answer(400, "You are already following this user.")
        ELSE /\ users' = followed(users, p.user, userId)
             /\ resp' = Response("followUser", 200, "You are now following",
                                 TRUE)
             /\ UNCHANGED <<nextId, nextTok, now, jwts, limiter, pending>>

\* the body of unfollowUser for an authenticated caller, on a given store: the
\* status and message it answers and the store it leaves
unfollowOutcome(store, currentUserId, userId) ==
    LET Refused(status, message) ==
            [status |-> status, message |-> message, store |-> store]
    IN  IF ~isValidObjectId(userId) THEN Refused(400, "Invalid user ID.")
        ELSE IF isSelf(userId, currentUserId)
        THEN Refused(400, "You cannot unfollow yourself.")
        ELSE IF userId \notin DOMAIN store \/ currentUserId \notin DOMAIN store
        THEN Refused(404, "User not found.")
        ELSE IF ~includes(store[currentUserId].following, userId)
        THEN Refused(400, "You are not following this user.")
        ELSE [status |-> 200, message |-> "You have unfollowed",
              store |-> unfollowed(store, currentUserId, userId)]

unfollowUser(tok, userId) ==
    LET p == protect(tok)
        o == unfollowOutcome(users, p.user, userId)
    IN  IF ~p.pass THEN Denied("unfollowUser", tok)
        ELSE IF p.user = Undefined
        THEN /\ resp' = Response("unfollowUser", 500, "Internal Server Error.", TRUE)
             /\ UNCHANGED <<users, nextId, nextTok, now, jwts, limiter, pending>>
        ELSE /\ users' = o.store
             /\ resp' = Response("unfollowUser", o.status, o.message, TRUE)
             /\ UNCHANGED <<nextId, nextTok, now, jwts, limiter, pending>>

(***************************************************************************)
(* GET /api/users/:userId/followers and /following: protect, getFollowers  *)
(* / getFollowing                                                          *)
(***************************************************************************)
\* the documents populate() puts in the place of the ids of a list
populated(list) ==
    {Serialized(list[i], users[list[i]], FALSE) :
        i \in {j \in DOMAIN list : list[j] \in DOMAIN users}}

getFollowers(tok, userId) ==
    LET p == protect(tok)
        Answer(status, message) ==
            /\ resp' = Response("getFollowers", status, message, TRUE)
            /\ UNCHANGED <<users, nextId, nextTok, now, jwts, limiter, pending>>
    IN  IF ~p.pass THEN Denied("getFollowers", tok)
        ELSE IF p.user = Undefined THEN Answer(500, "Internal Server Error.")
        ELSE IF ~isValidObjectId(userId) THEN Answer(400, "Invalid user ID.")
        ELSE IF ~Exists(userId) THEN Answer(404, "User not found.")
        ELSE IF users[userId].isPrivate /\ ~includes(users[userId].followers, p.user)
        THEN Answer(403, "This user's followers list is private.")
        ELSE /\ resp' = ResponseWith("getFollowers", 200, "",
                                     populated(users[userId].followers))
             /\ UNCHANGED <<users, nextId, nextTok, now, jwts, limiter, pending>>

getFollowing(tok, userId) ==
    LET p == protect(tok)
        Answer(status, message) ==
            /\ resp' = Response("getFollowing", status, message, TRUE)
            /\ UNCHANGED <<users, nextId, nextTok, now, jwts, limiter, pending>>
    IN  IF ~p.pass THEN Denied("getFollowing", tok)
        ELSE IF ~isValidObjectId(userId) THEN Answer(500, "Internal Server Error.")
        ELSE IF ~Exists(userId) THEN Answer(404, "User not found.")
        ELSE /\ resp' = ResponseWith("getFollowing", 200, "",
                                     populated(users[userId].following))
             /\ UNCHANGED <<users, nextId, nextTok, now, jwts, limiter, pending>>

(***************************************************************************)
(* Requests in flight.  A controller gives way at every await, so that the *)
(* reads and the saves of concurrent requests interleave.  pending holds   *)
(* the requests that have read their documents and have not answered: cur  *)
(* and tgt are the documents read, following and followers the arrays the  *)
(* request assigned, staleCur and staleTgt say that the stored document's  *)
(* version (__v) has moved on since it was read.                           *)
(***************************************************************************)
FreeSlots == (1..MaxPending) \ {r.slot : r \in pending}

InFlight(op, cur, tgt, pc, following, followers, token, password) ==
    [slot |-> CHOOSE n \in FreeSlots : \A m \in FreeSlots : n <= m,
     op |-> op, cur |-> cur, tgt |-> tgt, pc |-> pc,
     following |-> following, followers |-> followers,
     staleCur |-> FALSE, staleTgt |-> FALSE,
     token |-> token, password |-> password]

\* the requests in flight after a save of document id raised its version
VersionRaised(reqs, id) ==
    {[q EXCEPT !.staleCur = @ \/ q.cur = id,
               !.staleTgt = @ \/ q.tgt = id] : q \in reqs}

\* followUser up to its two findById: the request is refused at once, or it
\* goes on to its saves
followUserReads(tok, userId) ==
    LET p == protect(tok)
    IN  IF /\ p.pass
           /\ p.user # Undefined
           /\ ~isSelf(userId, p.user)
           /\ isValidObjectId(userId)
           /\ Exists(userId)
           /\ ~includes(users[p.user].following, userId)
        THEN /\ FreeSlots # {}
             /\ pending' = pending \cup
                    {InFlight("followUser", p.user, userId, "saveCurrent",
                              <<>>, <<>>, Undefined, <<>>)}
             /\ UNCHANGED <<users, nextId, nextTok, now, jwts, limiter, resp>>
        ELSE followUser(tok, userId)

\* unfollowUser up to its two findById and its two filters
unfollowUserReads(tok, userId) ==
    LET p == protect(tok)
    IN  IF /\ p.pass
           /\ p.user # Undefined
           /\ unfollowOutcome(users, p.user, userId).status = 200
        THEN /\ FreeSlots # {}
             /\ pending' = pending \cup
                    {InFlight("unfollowUser", p.user, userId, "saveCurrent",
                              without(users[p.user].following, userId),
                              without(users[userId].followers, p.user),
                              Undefined, <<>>)}
             /\ UNCHANGED <<users, nextId, nextTok, now, jwts, limiter, resp>>
        ELSE unfollowUser(tok, userId)

\* the catch of a request in flight whose save threw
saveThrows(r) ==
    /\ pending' = pending \ {r}
    /\ resp' = Response(r.op, 500, "Internal Server Error.", TRUE)
    /\ UNCHANGED <<users, nextId, nextTok, now, jwts, limiter>>

\* await currentUser.save(): a push is sent as $push, an assigned array as
\* $set under the version read; a document that is gone, or a version that
\* has moved on under an assigned array, makes save throw
currentUserSaves(r) ==
    /\ r \in pending
    /\ r.pc = "saveCurrent"
    /\ IF ~Exists(r.cur) \/ (r.op = "unfollowUser" /\ r.staleCur)
       THEN saveThrows(r)
       ELSE /\ users' = [users EXCEPT ![r.cur].following =
                            IF r.op = "followUser" THEN push(@, r.tgt)
                            ELSE r.following]
            /\ pending' = VersionRaised(pending \ {r}, r.cur)
                            \cup {[r EXCEPT !.pc = "saveTarget"]}
            /\ UNCHANGED <<nextId, nextTok, now, jwts, limiter, resp>>

\* await userToFollow.save() / userToUnfollow.save(), and the answer
targetUserSaves(r) ==
    /\ r \in pending
    /\ r.pc = "saveTarget"
    /\ IF ~Exists(r.tgt) \/ (r.op = "unfollowUser" /\ r.staleTgt)
       THEN saveThrows(r)
       ELSE /\ users' = [users EXCEPT ![r.tgt].followers =
                            IF r.op = "followUser" THEN push(@, r.cur)
                            ELSE r.followers]
            /\ pending' = VersionRaised(pending \ {r}, r.tgt)
            /\ resp' = Response(r.op, 200,
                                IF r.op = "followUser" THEN "You are now following"
                                ELSE "You have unfollowed", TRUE)
            /\ UNCHANGED <<nextId, nextTok, now, jwts, limiter>>

\* resetPassword up to its findOne: refused at once, or on to its save
resetPasswordReads(token, newPassword, salt) ==
    IF resetStatus(token, newPassword) = 200
    THEN /\ FreeSlots # {}
         /\ pending' = pending \cup
                {InFlight("resetPassword", FirstOf(UsersByResetToken(token)),
                          Undefined, "save", <<>>, <<>>, token, newPassword)}
         /\ UNCHANGED <<users, nextId, nextTok, now, jwts, limiter, resp>>
    ELSE resetPassword(token, newPassword, salt)

\* await user.save() of resetPassword, and the answer: the document read has
\* its password modified and its token fields unset, and save writes these
\* paths whatever the stored document holds by now
resetPasswordSaves(r, salt) ==
    /\ r \in pending
    /\ r.pc = "save"
    /\ pending' = pending \ {r}
    /\ IF ~Exists(r.cur)
       THEN /\ resp' = Response("resetPassword", 500,
                                "Server error. Please try again later.", TRUE)
            /\ UNCHANGED users
       ELSE /\ users' = Put(users, r.cur,
                            preSave([users[r.cur] EXCEPT
                                        !.password = r.password,
                                        !.resetPasswordToken = Undefined,
                                        !.resetPasswordExpires = Undefined],
                                    TRUE, salt))
            /\ resp' = Response("resetPassword", 200,
                         "Password reset successfully. You can now sign in.",
                         TRUE)
    /\ UNCHANGED <<nextId, nextTok, now, jwts, limiter>>

(***************************************************************************)
(* Request inputs.                                                         *)
(***************************************************************************)
EmailA == <<"a", "@", "x", ".", "c", "d">>
\* the same address as EmailA, with capitals and surrounding blanks
EmailAPadded == <<" ", "A", "@", "X", ".", "c", "d", " ">>
EmailB == <<"b", "@", "x", ".", "c", "d">>
EmailC == <<"c", "@", "x", ".", "c", "d">>
EmailBad == <<"a", "b">>

NameAl == <<"A", "l">>
NameScript == <<"<", "s", ">">>

PwOld == <<"O", "l", "d", "p", "a", "s", "s", "@", "1">>
PwNew == <<"N", "e", "w", "p", "a", "s", "s", "$", "2">>
\* eight characters, no capital, digit or special character
PwWeak == <<"p", "a", "s", "s", "w", "o", "r", "d">>
PwShort == <<"1", "2", "3", "4">>
PwSpace == <<"P", "a", "s", "s", " ", "w", "@", "r", "d", "1">>
PwLong64 == Rep("A", MaxResetPasswordLen)
PwLong65 == Rep("A", MaxResetPasswordLen + 1)

\* every path parameter: the identifiers the store hands out, and a malformed one
PathIds == (1..MaxUsers) \cup {MalformedId}

(***************************************************************************)
(* The follow graph alone: signups, then follow and unfollow requests.     *)
(***************************************************************************)
FollowSignup ==
    \E email \in {EmailA, EmailB, EmailC} :
        registerUser(NameAl, email, PwOld, "salt1")

FollowBearers == jwts \cup {NoBearer}

FollowRequest ==
    \E tok \in FollowBearers, userId \in PathIds : followUser(tok, userId)

UnfollowRequest ==
    \E tok \in FollowBearers, userId \in PathIds : unfollowUser(tok, userId)

NextFollow == FollowSignup \/ FollowRequest \/ UnfollowRequest

SpecFollow == Init /\ [][NextFollow]_vars

(***************************************************************************)
(* The password-reset lifecycle: accounts, forgot/reset requests, signin   *)
(* and the clock.                                                          *)
(***************************************************************************)
\* the token parameters of a request: every token issued so far, and one that
\* was never issued
ResetTokens == (1..(nextTok - 1)) \cup {UnknownResetToken}

\* new passwords the handler refuses before it looks the token up, and new
\* passwords it accepts
BadPasswords == {<<>>, PwShort, PwSpace, PwLong65}
GoodPasswords == {PwNew, PwLong64}
ResetPasswords == BadPasswords \cup GoodPasswords

\* the token issued last, if any
LatestToken == IF nextTok > 1 THEN nextTok - 1 ELSE UnknownResetToken

\* the requests: every token with an acceptable password, and the latest token
\* with each unacceptable one
ResetRequests ==
    (ResetTokens \X GoodPasswords) \cup ({LatestToken} \X BadPasswords)

\* the addresses reset links are requested for
ResetEmails == {EmailAPadded, EmailB}

\* the fixture accounts, in the order the tests create them: an account, then
\* an account that was deactivated
ResetAccount ==
    \/ createUser(NameAl, EmailAPadded, PwOld, "user", TRUE, "salt1")
    \/ (users # <<>> /\ createUser(NameAl, EmailB, PwOld, "user", FALSE, "salt1"))

ResetForgot ==
    \E email \in ResetEmails, mailSent \in BOOLEAN :
        forgotPassword("ip1", email, mailSent)

ResetReset ==
    \E r \in ResetRequests : resetPassword(r[1], r[2], "salt2")

\* the clock is followed from the first issued token on
ResetTick == nextTok > 1 /\ \E d \in TickSteps : Tick(d)

NextReset == ResetAccount \/ ResetForgot \/ ResetReset \/ ResetTick

SpecReset == Init /\ [][NextReset]_vars

(***************************************************************************)
(* The whole service: every endpoint that can refuse a request, with       *)
(* accounts made by the two signup variants.                               *)
(***************************************************************************)
NameBo == <<"B", "o">>

\* request bodies of PUT /api/users/:userId; an absent field is empty
NoBody == [name |-> <<>>, email |-> <<>>, password |-> <<>>, bio |-> <<>>]

\* a body and the fate of the attached file
UpdateRequests ==
    {<<[NoBody EXCEPT !.name = NameBo], "none">>,
     <<[NoBody EXCEPT !.password = PwShort], "none">>,
     <<[NoBody EXCEPT !.name = NameBo], "rejected">>}

\* the path ids of the requests: the stored users, an id no user has, and a
\* malformed one
KnownPathIds == (DOMAIN users) \cup {nextId, MalformedId}

\* the users other users follow and unfollow
FollowTargets == {1, MalformedId}

\* the first account is made by the template's signup
SignupNames == {NameAl, NameScript}
SignupPasswords == {PwOld, PwShort}
TemplateSignupPasswords == {PwOld, PwWeak}

Signup ==
    /\ users # <<>>
    /\ \E name \in SignupNames, password \in SignupPasswords :
          registerUser(name, EmailA, password, "salt1")

TemplateSignup ==
    \E password \in TemplateSignupPasswords :
        templateRegisterUser(NameAl, EmailB, password, "", "salt1")

Signin == \E email \in {EmailA, EmailBad} : signInUser(email, PwNew, FALSE)

Forgot == \E email \in {EmailA, EmailBad} : forgotPassword("ip1", email, TRUE)

Reset ==
    \E token \in ResetTokens, newPassword \in {PwShort, PwNew} :
        resetPassword(token, newPassword, "salt1")

\* each route behind protect is called with every token a client holds, and
\* once without a token
Update ==
    \/ \E tok \in jwts, userId \in KnownPathIds, r \in UpdateRequests :
          updateUser(tok, userId, r[1], r[2], "salt1")
    \/ updateUser(NoBearer, 1, [NoBody EXCEPT !.name = NameBo], "none", "salt1")

Delete ==
    \/ \E tok \in jwts, userId \in KnownPathIds : deleteUser(tok, userId)
    \/ deleteUser(NoBearer, 1)

Follow ==
    \/ \E tok \in jwts, userId \in FollowTargets : followUser(tok, userId)
    \/ followUser(NoBearer, 1)

Unfollow ==
    \/ \E tok \in jwts, userId \in FollowTargets : unfollowUser(tok, userId)
    \/ unfollowUser(NoBearer, 1)

Next ==
    \/ Signup
    \/ TemplateSignup
    \/ Signin
    \/ Forgot
    \/ Reset
    \/ Update
    \/ Delete
    \/ Follow
    \/ Unfollow

Spec == Init /\ [][Next]_vars

(***************************************************************************)
(* The routes behind protect, called with every kind of Authorization      *)
(* header while the clock lets tokens expire.                              *)
(***************************************************************************)
\* a token signed with another secret that claims to be the first user's
ForgedBearer == Jwt("badsig", "id", 1, "admin", now + JwtTtl1h)

\* the Authorization headers: a token the client was sent (expired or not),
\* none, a string that is no token, a forged token
RequestBearers == jwts \cup {NoBearer, MalformedBearer, ForgedBearer}

\* path ids: the first user's, one no user has, a malformed one
RequestPathIds == {1, nextId, MalformedId}

ProtectAccount == createUser(NameAl, EmailA, PwOld, "user", TRUE, "salt1")

ProtectLogin == loginUser(EmailA, PwOld)

ProtectGet ==
    \E tok \in RequestBearers, userId \in RequestPathIds : getUserById(tok, userId)

ProtectUpdate ==
    \E tok \in RequestBearers, userId \in RequestPathIds, r \in UpdateRequests :
        updateUser(tok, userId, r[1], r[2], "salt1")

ProtectTemplateUpdate ==
    \E tok \in RequestBearers, userId \in RequestPathIds :
        templateUpdateUser(tok, userId, [NoBody EXCEPT !.name = NameBo] @@ [role |-> ""])

ProtectDelete ==
    \E tok \in RequestBearers, userId \in RequestPathIds : deleteUser(tok, userId)

ProtectFollow ==
    \E tok \in RequestBearers, userId \in RequestPathIds : followUser(tok, userId)

ProtectUnfollow ==
    \E tok \in RequestBearers, userId \in RequestPathIds : unfollowUser(tok, userId)

ProtectLogout == \E tok \in RequestBearers : logoutUser(tok)

ProtectTemplateLogout == \E tok \in RequestBearers : templateLogoutUser(tok)

\* an hour passes: the tokens signed before it are expired
HourPasses == jwts # {} /\ Tick(JwtTtl1h)

NextProtect ==
    \/ ProtectAccount
    \/ ProtectLogin
    \/ ProtectGet
    \/ ProtectUpdate
    \/ ProtectTemplateUpdate
    \/ ProtectDelete
    \/ ProtectFollow
    \/ ProtectUnfollow
    \/ ProtectLogout
    \/ ProtectTemplateLogout
    \/ HourPasses

SpecProtect == Init /\ [][NextProtect]_vars

(***************************************************************************)
(* Users and an administrator acting on their own and on each other's      *)
(* accounts.                                                               *)
(***************************************************************************)
\* the fixture accounts, seeded before the first request: two users and an
\* administrator
UsersAccount ==
    /\ resp.op \in {"none", "create"}
    /\ \/ createUser(NameAl, EmailA, PwOld, "user", TRUE, "salt1")
       \/ createUser(NameAl, EmailB, PwOld, "user", TRUE, "salt1")
       \/ createUser(NameAl, EmailC, PwOld, "admin", TRUE, "salt1")

UsersLogin == \E email \in {EmailA, EmailB, EmailC} : loginUser(email, PwOld)

\* request bodies of the template's PUT /api/users/:userId
TemplateUpdateBodies ==
    {[NoBody EXCEPT !.name = NameBo] @@ [role |-> ""],
     [NoBody EXCEPT !.password = PwNew] @@ [role |-> ""]}

UsersUpdate ==
    \/ \E tok \in jwts, userId \in PathIds, r \in UpdateRequests :
          updateUser(tok, userId, r[1], r[2], "salt1")
    \/ updateUser(NoBearer, 1, [NoBody EXCEPT !.name = NameBo], "none", "salt1")

UsersTemplateUpdate ==
    \/ \E tok \in jwts, userId \in PathIds, body \in TemplateUpdateBodies :
          templateUpdateUser(tok, userId, body)
    \/ templateUpdateUser(NoBearer, 1, [NoBody EXCEPT !.name = NameBo] @@ [role |-> ""])

UsersDelete ==
    \/ \E tok \in jwts, userId \in PathIds : deleteUser(tok, userId)
    \/ deleteUser(NoBearer, 1)

NextUsers ==
    \/ UsersAccount
    \/ UsersLogin
    \/ UsersUpdate
    \/ UsersTemplateUpdate
    \/ UsersDelete

SpecUsers == Init /\ [][NextUsers]_vars

(***************************************************************************)
(* The limiter of POST /api/auth/reset-password: requests of two client    *)
(* addresses while the clock runs.                                         *)
(***************************************************************************)
LimiterAccount == createUser(NameAl, EmailA, PwOld, "user", TRUE, "salt1")

\* the addresses links are asked for: an account's, one of no account, and one
\* the validation refuses
LimiterEmails == {EmailA, EmailB, EmailBad}

LimiterForgot ==
    \E ip \in ClientAddresses, email \in LimiterEmails :
        forgotPassword(ip, email, TRUE)

LimiterTick == \E d \in TickSteps : Tick(d)

NextLimiter == LimiterAccount \/ LimiterForgot \/ LimiterTick

SpecLimiter == Init /\ [][NextLimiter]_vars

(***************************************************************************)
(* The follower lists of public and private accounts.                      *)
(***************************************************************************)
\* the fixture accounts: two public accounts and a private one
ListsAccount ==
    /\ resp.op \in {"none", "create"}
    /\ \/ createUser(NameAl, EmailA, PwOld, "user", TRUE, "salt1")
       \/ createUser(NameAl, EmailB, PwOld, "user", TRUE, "salt1")
       \/ createPrivateUser(NameAl, EmailC, PwOld, "salt1")

ListsLogin == \E email \in {EmailA, EmailB, EmailC} : loginUser(email, PwOld)

ListsFollow == \E tok \in jwts, userId \in DOMAIN users : followUser(tok, userId)

ListsGetFollowers ==
    \E tok \in jwts \cup {NoBearer}, userId \in PathIds : getFollowers(tok, userId)

ListsGetFollowing ==
    \E tok \in jwts \cup {NoBearer}, userId \in PathIds : getFollowing(tok, userId)

NextLists ==
    \/ ListsAccount
    \/ ListsLogin
    \/ ListsFollow
    \/ ListsGetFollowers
    \/ ListsGetFollowing

SpecLists == Init /\ [][NextLists]_vars

(***************************************************************************)
(* Accounts and their addresses: signups of both variants, and updates     *)
(* that change the address.                                                *)
(***************************************************************************)
\* PwOld with a blank before and after
PwPadded == <<" ">> \o PwOld \o <<" ">>

\* the addresses signups ask for, and the addresses updates change to
SignupEmails == {EmailA, EmailAPadded, EmailB}
UpdateEmails == {EmailAPadded, EmailC}

AccountsSignup ==
    \E email \in SignupEmails, password \in {PwOld, PwPadded} :
        registerUser(NameAl, email, password, "salt1")

\* a signup that looked the address up before a concurrent signup stored it
AccountsLateSignup ==
    \E email \in SignupEmails : registerUserLateSave(NameAl, email, PwOld, "salt1")

AccountsTemplateSignup ==
    \E email \in SignupEmails :
        templateRegisterUser(NameAl, email, PwOld, "", "salt2")

\* the credentials of the template's signin: a password accounts have, and one
\* no account has
LoginEmails == {EmailA, EmailB}
LoginPasswords == {PwOld, PwNew}

AccountsLogin ==
    \E email \in LoginEmails, password \in LoginPasswords :
        loginUser(email, password)

\* a user changes the address of their own profile
AccountsUpdate ==
    \E tok \in jwts, email \in UpdateEmails :
        updateUser(tok, tok.sub, [NoBody EXCEPT !.email = email], "none", "salt1")

AccountsTemplateUpdate ==
    \E tok \in jwts, email \in UpdateEmails :
        templateUpdateUser(tok, tok.sub,
                           [NoBody EXCEPT !.email = email] @@ [role |-> ""])

NextAccounts ==
    \/ AccountsSignup
    \/ AccountsLateSignup
    \/ AccountsTemplateSignup
    \/ AccountsLogin
    \/ AccountsUpdate
    \/ AccountsTemplateUpdate

SpecAccounts == Init /\ [][NextAccounts]_vars

(***************************************************************************)
(* Roles: users and an administrator who read, update and delete accounts  *)
(* and change roles through the template's updateUser.                     *)
(***************************************************************************)
\* bodies that set a role, carry a password or carry an _id
RoleUpdateBodies ==
    {[NoBody EXCEPT !.name = <<>>] @@ [role |-> "admin", _id |-> 1],
     NoBody @@ [role |-> "user"],
     [NoBody EXCEPT !.password = PwNew] @@ [role |-> "admin", _id |-> 2]}

\* the fixture accounts: a user and an administrator
RolesAccount ==
    /\ resp.op \in {"none", "create"}
    /\ \/ createUser(NameAl, EmailA, PwOld, "user", TRUE, "salt1")
       \/ createUser(NameAl, EmailC, PwOld, "admin", TRUE, "salt1")

RolesLogin == \E email \in {EmailA, EmailC} : loginUser(email, PwOld)

RolesUpdate ==
    \E tok \in jwts, userId \in PathIds, body \in RoleUpdateBodies :
        templateUpdateUser(tok, userId, body)

RolesGet == \E tok \in jwts, userId \in PathIds : getUserById(tok, userId)

RolesDelete == \E tok \in jwts, userId \in PathIds : deleteUser(tok, userId)

RolesFollow == \E tok \in jwts, userId \in PathIds : followUser(tok, userId)

RolesUnfollow == \E tok \in jwts, userId \in PathIds : unfollowUser(tok, userId)

NextRoles ==
    \/ RolesAccount
    \/ RolesLogin
    \/ RolesFollow
    \/ RolesUnfollow
    \/ RolesUpdate
    \/ RolesGet
    \/ RolesDelete

SpecRoles == Init /\ [][NextRoles]_vars

(***************************************************************************)
(* Concurrent follow, unfollow and delete requests of three accounts.      *)
(***************************************************************************)
\* the fixture accounts of the follow tests; the clients hold their tokens
RacingAccount ==
    /\ nextId <= MaxUsers
    /\ resp.op \in {"none", "signup"}
    /\ registerUser(NameAl, IF nextId = 1 THEN EmailA
                            ELSE IF nextId = 2 THEN EmailB ELSE EmailC,
                    PwOld, "salt1")

\* the account the others follow and unfollow
RacingTarget == 1

\* follows are sent while the followed account's list is short
RacingFollowReads ==
    /\ \A u \in DOMAIN users : Len(users[u].followers) < MaxUsers
    /\ \E tok \in jwts : followUserReads(tok, RacingTarget)

RacingUnfollowReads == \E tok \in jwts : unfollowUserReads(tok, RacingTarget)

RacingSaves == \E r \in pending : currentUserSaves(r) \/ targetUserSaves(r)

\* the followed account is deleted by its owner
RacingDelete ==
    \E tok \in jwts : tok.sub = RacingTarget /\ deleteUser(tok, RacingTarget)

NextRacing ==
    \/ RacingAccount
    \/ RacingFollowReads
    \/ RacingUnfollowReads
    \/ RacingSaves
    \/ RacingDelete

SpecRacing == Init /\ [][NextRacing]_vars

(***************************************************************************)
(* Password resets of one account: concurrent requests, and the reset of   *)
(* the controller that hashes the new password itself.                     *)
(***************************************************************************)
RacingResetAccount ==
    /\ users = <<>>
    /\ createUser(NameAl, EmailA, PwOld, "user", TRUE, "salt1")

\* reset links are requested while no reset is in flight
RacingForgot == pending = {} /\ forgotPassword("ip1", EmailA, TRUE)

RacingResetReads ==
    \E token \in ResetTokens, newPassword \in {PwOld, PwNew, PwShort} :
        resetPasswordReads(token, newPassword, "salt2")

RacingResetSaves == \E r \in pending : resetPasswordSaves(r, "salt2")

\* the same reset handled by the controller that hashes the password itself
RacingResetHashing ==
    /\ pending = {}
    /\ \E token \in ResetTokens, newPassword \in {PwOld, PwNew} :
          resetPasswordHashing(token, newPassword, "salt1", "salt2")

NextRacingReset ==
    \/ RacingResetAccount
    \/ RacingResetHashing
    \/ RacingForgot
    \/ RacingResetReads
    \/ RacingResetSaves

SpecRacingReset == Init /\ [][NextRacingReset]_vars

(***************************************************************************)
(* Properties of refused requests.                                         *)
(***************************************************************************)
\* the endpoint answered with a validation, authentication or authorization
\* error and the stored users are what they were
RefusalWritesNothing ==
    resp'.status \in {400, 401, 403} => users' = users

\* the password is shorter than 8 characters
FailsLengthPolicy(password) == Len(password) < 8

\* the password misses a lower-case letter, a capital, a digit or a special
\* character, or is shorter than 8 characters
FailsComplexityPolicy(password) ==
    \/ Len(password) < 8
    \/ \A i \in 1..Len(password) : password[i] \notin LowerChars
    \/ \A i \in 1..Len(password) : password[i] \notin UpperChars
    \/ \A i \in 1..Len(password) : password[i] \notin DigitChars
    \/ \A i \in 1..Len(password) : password[i] \notin SpecialChars

\* a signup whose password fails the policy of its variant is answered 400 and
\* creates no user
BadPasswordCreatesNoUser ==
    /\ resp'.op = "signup" =>
         \A name \in SignupNames, password \in SignupPasswords :
            ( /\ FailsLengthPolicy(password)
              /\ registerUser(name, EmailA, password, "salt1") ) =>
                (resp'.status = 400 /\ users' = users)
    /\ resp'.op = "templateSignup" =>
         \A password \in TemplateSignupPasswords :
            ( /\ FailsComplexityPolicy(password)
              /\ templateRegisterUser(NameAl, EmailB, password, "", "salt1") ) =>
                (resp'.status = 400 /\ users' = users)

\* C1: on every endpoint (signup, signin, forgotPassword, resetPassword,
\* update, delete, follow, unfollow) a request answered 400, 401 or 403 leaves
\* the stored set of users and every field of every user unchanged; a signup
\* whose password fails the active policy is answered 400 and creates no user.
RefusedRequestsChangeNothing ==
    [][RefusalWritesNothing /\ BadPasswordCreatesNoUser]_vars

\* a signup with a too-short password was just refused, and the address it
\* asked for belongs to no user
RefusedRequestsChangeNothingWitness ==
    /\ resp.op = "signup"
    /\ resp.status = 400
    /\ resp.message = "Failed Validation"
    /\ users # <<>>
    /\ UsersByEmail(EmailA) = {}

(***************************************************************************)
(* Properties of the routes behind protect.                                *)
(***************************************************************************)
\* the token carries no valid proof of identity: it is no token, its signature
\* is bad, or it has expired
Unusable(tok) ==
    \/ tok.kind \in {"malformed", "badsig"}
    \/ tok.kind = "signed" /\ now >= tok.exp

\* when the route was called with this header: without a token the answer is
\* 401 (no token provided), with an unusable token 401 (authentication
\* failed); the controller was not entered and nothing was written
Guarded(op, tok, called) ==
    called =>
        /\ tok.kind = "none" =>
             /\ resp' = Response(op, 401, "Not authorized, no token provided", FALSE)
             /\ users' = users
        /\ Unusable(tok) =>
             /\ resp' = Response(op, 401, "Invalid token, authentication failed", FALSE)
             /\ users' = users

GuardedRoutesStep ==
    \A tok \in RequestBearers, userId \in RequestPathIds :
        /\ resp'.op = "getUserById" =>
             Guarded("getUserById", tok, getUserById(tok, userId))
        /\ resp'.op = "updateUser" =>
             \A r \in UpdateRequests :
                Guarded("updateUser", tok,
                        updateUser(tok, userId, r[1], r[2], "salt1"))
        /\ resp'.op = "templateUpdateUser" =>
             Guarded("templateUpdateUser", tok,
                     templateUpdateUser(tok, userId,
                        [NoBody EXCEPT !.name = NameBo] @@ [role |-> ""]))
        /\ resp'.op = "deleteUser" =>
             Guarded("deleteUser", tok, deleteUser(tok, userId))
        /\ resp'.op = "followUser" =>
             Guarded("followUser", tok, followUser(tok, userId))
        /\ resp'.op = "unfollowUser" =>
             Guarded("unfollowUser", tok, unfollowUser(tok, userId))

\* C2: on every route guarded by protect a request without a bearer token is
\* answered 401 (no token provided) and a request whose token has a bad
\* signature, is malformed or is expired is answered 401 (authentication
\* failed); the controller is not entered, whatever the path id is.
GuardedRoutesRefuse == [][GuardedRoutesStep]_vars

\* a request with an expired token was just refused
GuardedRoutesRefuseWitness ==
    /\ resp = Response("deleteUser", 401, "Invalid token, authentication failed", FALSE)
    /\ jwts # {}
    /\ \A tok \in jwts : now >= tok.exp
    /\ 1 \in DOMAIN users

\* a signout, accepted or refused, writes nothing
SignoutWritesNothing ==
    resp'.op \in {"logout", "templateLogout"} =>
        \A tok \in RequestBearers :
            (logoutUser(tok) \/ templateLogoutUser(tok)) =>
                UNCHANGED <<users, nextId, nextTok, now, jwts, limiter>>

\* the request that follows an accepted signout, made with a token that has not
\* expired, is accepted: signout answers 200 again, and no guarded route
\* answers 401
AcceptedAfterSignout ==
    (resp.op \in {"logout", "templateLogout"} /\ resp.status = 200) =>
        \A tok \in jwts :
            (tok.kind = "signed" /\ now < tok.exp) =>
                /\ logoutUser(tok) => resp'.status = 200
                /\ templateLogoutUser(tok) => resp'.status = 200
                /\ \A userId \in RequestPathIds :
                     /\ getUserById(tok, userId) => resp'.status # 401
                     /\ deleteUser(tok, userId) => resp'.status # 401
                     /\ followUser(tok, userId) => resp'.status # 401
                     /\ unfollowUser(tok, userId) => resp'.status # 401
                     /\ templateUpdateUser(tok, userId,
                            [NoBody EXCEPT !.name = NameBo] @@ [role |-> ""])
                          => resp'.status # 401
                     /\ \A r \in UpdateRequests :
                          updateUser(tok, userId, r[1], r[2], "salt1")
                            => resp'.status # 401

\* C18: signout changes no server-side state and invalidates nothing: after a
\* successful signout the same unexpired token is still accepted by signout
\* (200 again) and by every protected endpoint, until it expires.
SignoutInvalidatesNothing ==
    [][SignoutWritesNothing /\ AcceptedAfterSignout]_vars

\* a signout was just accepted, with a token signed after an earlier one expired
SignoutInvalidatesNothingWitness ==
    /\ resp = Response("logout", 200, "User signed out successfully", TRUE)
    /\ \E tok \in jwts : now < tok.exp
    /\ \E tok \in jwts : now >= tok.exp

\* the authenticated user a token stands for, Undefined when there is none
Actor(tok) ==
    IF tok.kind = "signed" /\ now < tok.exp /\ tok.idf = "id"
       /\ tok.sub \in DOMAIN users
    THEN tok.sub
    ELSE Undefined

\* the actor is authenticated, is no administrator and is not the target
NonAdminOther(tok, userId) ==
    /\ Actor(tok) # Undefined
    /\ users[Actor(tok)].role # "admin"
    /\ userId # Actor(tok)

UpdateOfAnotherStep ==
    /\ resp'.op = "updateUser" =>
         \A tok \in jwts, userId \in DOMAIN users, r \in UpdateRequests :
            ( /\ NonAdminOther(tok, userId)
              /\ r[2] # "rejected"
              /\ updateUser(tok, userId, r[1], r[2], "salt1") ) =>
                /\ resp'.status = 403
                /\ userId \in DOMAIN users'
                /\ users'[userId] = users[userId]
    /\ resp'.op = "templateUpdateUser" =>
         \A tok \in jwts, userId \in DOMAIN users, body \in TemplateUpdateBodies :
            ( /\ NonAdminOther(tok, userId)
              /\ templateUpdateUser(tok, userId, body) ) =>
                /\ resp'.status = 403
                /\ userId \in DOMAIN users'
                /\ users'[userId] = users[userId]

DeleteStep ==
    resp'.op = "deleteUser" =>
        \A tok \in jwts, userId \in 1..MaxUsers :
            (Actor(tok) # Undefined /\ deleteUser(tok, userId)) =>
                LET actor == Actor(tok)
                    permitted == actor = userId \/ users[actor].role = "admin"
                IN  /\ (userId \in DOMAIN users /\ userId \notin DOMAIN users')
                            <=> (permitted /\ userId \in DOMAIN users)
                    /\ (permitted /\ userId \in DOMAIN users) =>
                         /\ resp'.status = 200
                         /\ users' = [u \in DOMAIN users \ {userId} |-> users[u]]
                         /\ (resp'.message = "Your account has been deleted")
                                <=> (actor = userId)
                         /\ (resp'.message = "User deleted successfully")
                                <=> (actor # userId)
                    /\ ~permitted =>
                         /\ resp'.status = 403
                         /\ users' = users

NoResponseCarriesHash ==
    \A d \in resp.body :
        /\ d.password = Withheld
        /\ \A u \in DOMAIN users : d.password # users[u].password

(***************************************************************************)
(* Properties of the stored accounts.                                      *)
(***************************************************************************)
\* the record the signup that was just accepted stored
Created == users'[nextId]

\* the record stored for this signup: its address is the submitted one trimmed
\* and lower-cased, its password is no plaintext and matches the given text
StoredAs(email, password, matching) ==
    /\ nextId \in DOMAIN users'
    /\ Created.email = toLowerCase(trim(email))
    /\ Created.password # password
    /\ Created.password # matching
    /\ comparePassword(Created, matching)

SignupStoresSubmittedStep ==
    /\ (resp'.op = "signup" /\ resp'.status = 201) =>
         \A email \in SignupEmails, password \in {PwOld, PwPadded} :
            registerUser(NameAl, email, password, "salt1") =>
                StoredAs(email, password, password)
    /\ (resp'.op = "templateSignup" /\ resp'.status = 201) =>
         \A email \in SignupEmails :
            templateRegisterUser(NameAl, email, PwOld, "", "salt2") =>
                StoredAs(email, PwOld, PwOld)

\* C15 as stated: after every successful signup the persisted email equals the
\* submitted email trimmed and lowercased, the persisted password is a hash
\* that differs from the submitted plaintext, and comparePassword(submitted
\* plaintext) on the stored record is true.
SignupStoresSubmitted == [][SignupStoresSubmittedStep]_vars

SignupStoresTrimmedStep ==
    /\ (resp'.op = "signup" /\ resp'.status = 201) =>
         \A email \in SignupEmails, password \in {PwOld, PwPadded} :
            registerUser(NameAl, email, password, "salt1") =>
                StoredAs(email, password, trim(password))
    /\ (resp'.op = "templateSignup" /\ resp'.status = 201) =>
         \A email \in SignupEmails :
            templateRegisterUser(NameAl, email, PwOld, "", "salt2") =>
                StoredAs(email, PwOld, PwOld)

\* C15 as amended: after every successful signup the persisted email equals
\* the submitted email trimmed and lowercased, the persisted password is a
\* hash that differs from the submitted plaintext, and comparePassword on the
\* stored record is true for the submitted plaintext, which the self-service
\* variant's signup first strips of leading and trailing blanks.
SignupStoresTrimmed == [][SignupStoresTrimmedStep]_vars

\* a signup was just accepted whose record matches the password without its
\* blanks, beside an account made by the template's signup
SignupStoresTrimmedWitness ==
    /\ resp.op = "signup"
    /\ resp.status = 201
    /\ \E d \in resp.body :
         /\ d.email = EmailA
         /\ comparePassword(users[d.id], PwOld)
         /\ users[d.id].password = bcryptHash(PwOld, "salt1")
    /\ \E u \in DOMAIN users : users[u].password = bcryptHash(PwOld, "salt2")

\* an address trimmed and lower-cased
Normalized(email) == [i \in 1..Len(trim(email)) |-> LowerChar(trim(email)[i])]

\* no two users have the same normalized address
UniqueEmails ==
    \A u \in DOMAIN users, v \in DOMAIN users :
        u # v => Normalized(users[u].email) # Normalized(users[v].email)

\* some user has this address, normalized
Registered(email) ==
    \E u \in DOMAIN users : Normalized(users[u].email) = Normalized(email)

DuplicateSignupRefused ==
    /\ (resp'.op = "signup" /\ resp'.status # 500) =>
         \A email \in SignupEmails, password \in {PwOld, PwPadded} :
            (Registered(email) /\ registerUser(NameAl, email, password, "salt1")) =>
                (resp'.status = 400 /\ users' = users)
    /\ resp'.op = "templateSignup" =>
         \A email \in SignupEmails :
            ( /\ Registered(email)
              /\ templateRegisterUser(NameAl, email, PwOld, "", "salt2") ) =>
                (resp'.status = 400 /\ users' = users)

\* C16: in every reachable state no two users have the same normalized
\* (trimmed, lowercased) email, after any sequence of signup requests and
\* email-changing update requests; a signup whose normalized email is already
\* registered is answered 400 and creates no user.
EmailsStayUnique == []UniqueEmails /\ [][DuplicateSignupRefused]_vars

\* a signup for a registered address was just refused, while another user had
\* changed their address
EmailsStayUniqueWitness ==
    /\ resp.op \in {"signup", "templateSignup"}
    /\ resp.status = 400
    /\ resp.ctrl
    /\ Cardinality(DOMAIN users) >= 2
    /\ \E u \in DOMAIN users : users[u].email = EmailC

\* the users registered under this address
Holders(email) == {u \in DOMAIN users : users[u].email = Normalized(email)}

\* the store without the accounts of this address
WithoutAccount(email) == [u \in (DOMAIN users) \ Holders(email) |-> users[u]]

\* the store with an account of this address whose password is another one
WithAccount(email, password) ==
    [u \in (DOMAIN users) \cup {nextId} |->
        IF u = nextId
        THEN NewUser(NameAl, Normalized(email),
                     bcryptHash(<<"x">> \o password, "salt1"), "user", TRUE)
        ELSE users[u]]

SameFailureStep ==
    resp'.op = "login" =>
        \A email \in LoginEmails, password \in LoginPasswords :
            ( /\ loginUser(email, password)
              /\ resp'.status # 200 ) =>
                /\ resp' = Response("login", 401, "Invalid credentials", TRUE)
                /\ Holders(email) # {} =>
                     resp' = loginAnswer(WithoutAccount(email), email, password)
                /\ Holders(email) = {} =>
                     resp' = loginAnswer(WithAccount(email, password), email, password)

\* C17: in the enumeration-safe signin variant, for a well-formed email and
\* password the response (status 401 and message 'Invalid credentials') is
\* identical whether the email is unregistered or the email is registered and
\* the password is wrong.
SameLoginFailure == [][SameFailureStep]_vars

\* a signin with a wrong password for a registered address was just refused,
\* while the other address is not registered
SameLoginFailureWitness ==
    /\ resp = Response("login", 401, "Invalid credentials", TRUE)
    /\ Holders(EmailA) # {}
    /\ Holders(EmailB) = {}
    /\ jwts = {}

(***************************************************************************)
(* Properties of the limiter.                                              *)
(***************************************************************************)
\* the window of this address is running and three requests were admitted
\* in it
Exhausted(ip) == now < limiter[ip].resetTime /\ limiter[ip].count >= 3

\* no window of this address is running
WindowOver(ip) == now >= limiter[ip].resetTime

\* the reset tokens of the stored users
ResetTokenFields(store) ==
    [u \in DOMAIN store |->
        <<store[u].resetPasswordToken, store[u].resetPasswordExpires>>]

LimiterStep ==
    resp'.op = "forgotPassword" =>
        \A ip \in ClientAddresses, email \in {EmailA, EmailB} :
            forgotPassword(ip, email, TRUE) =>
                /\ Exhausted(ip) =>
                     /\ resp' = Response("forgotPassword", 429,
                                  "Too many requests. Please try again later.", FALSE)
                     /\ ResetTokenFields(users') = ResetTokenFields(users)
                     /\ nextTok' = nextTok
                /\ ~Exhausted(ip) => (resp'.status # 429 /\ resp'.ctrl)
                /\ WindowOver(ip) => limiter'[ip].count = 1
                /\ \A other \in ClientAddresses \ {ip} :
                     limiter'[other] = limiter[other]

FollowListsSymmetric ==
    \A a \in DOMAIN users, b \in DOMAIN users :
        includes(users[a].following, b) <=> includes(users[b].followers, a)

\* an unfollow was just accepted and another follow relation is in place
FollowListsSymmetricWitness ==
    /\ resp.op = "unfollowUser"
    /\ resp.status = 200
    /\ \E a \in DOMAIN users, b \in DOMAIN users :
         /\ a # b
         /\ includes(users[a].following, b)
         /\ includes(users[b].followers, a)

NoSelfInLists ==
    \A u \in DOMAIN users :
        ~includes(users[u].followers, u) /\ ~includes(users[u].following, u)

SelfRequestRejected ==
    resp'.op \in {"followUser", "unfollowUser"} =>
        \A tok \in jwts :
            ( /\ protect(tok).pass
              /\ protect(tok).user # Undefined
              /\ \/ followUser(tok, protect(tok).user)
                 \/ unfollowUser(tok, protect(tok).user) )
            => (resp'.status = 400 /\ users' = users)

\* C10: in every state reachable through follow and unfollow requests no
\* user is in its own followers or following list, and a follow or unfollow
\* of oneself is answered 400 and changes nothing.
NoSelfFollow == []NoSelfInLists /\ [][SelfRequestRejected]_vars

\* a follow of oneself was just refused while follow relations exist
NoSelfFollowWitness ==
    /\ resp.op = "followUser"
    /\ resp.status = 400
    /\ resp.message = "You cannot follow yourself."
    /\ \E u \in DOMAIN users : users[u].following # <<>>

\* the id is in the list
Has(list, id) == \E i \in DOMAIN list : list[i] = id

\* no follow list holds an id twice
NoIdTwice ==
    \A u \in DOMAIN users :
        /\ \A i, j \in DOMAIN users[u].following :
              users[u].following[i] = users[u].following[j] => i = j
        /\ \A i, j \in DOMAIN users[u].followers :
              users[u].followers[i] = users[u].followers[j] => i = j

AlreadyFollowingRejected ==
    resp'.op = "followUser" =>
        \A tok \in jwts, userId \in DOMAIN users :
            ( /\ Actor(tok) # Undefined
              /\ Has(users[Actor(tok)].following, userId)
              /\ followUser(tok, userId) ) =>
                /\ resp' = Response("followUser", 400,
                                    "You are already following this user.", TRUE)
                /\ users' = users

\* C11: follow(B) by actor A while B is already in A.following is answered 400
\* ('You are already following this user.') and leaves the lists unchanged, so
\* after any sequence of follow requests no list contains an id twice.
FollowTwiceRejected == []NoIdTwice /\ [][AlreadyFollowingRejected]_vars

\* a second follow of the same user was just refused, and that user has two
\* followers
FollowTwiceRejectedWitness ==
    /\ resp = Response("followUser", 400, "You are already following this user.", TRUE)
    /\ \E u \in DOMAIN users : Len(users[u].followers) >= 2

NotFollowingRejected ==
    resp'.op = "unfollowUser" =>
        \A tok \in jwts, userId \in 1..MaxUsers :
            ( /\ Actor(tok) # Undefined
              /\ userId # Actor(tok)
              /\ unfollowUser(tok, userId) ) =>
                /\ userId \notin DOMAIN users =>
                     (resp'.status = 404 /\ users' = users)
                /\ (userId \in DOMAIN users
                    /\ ~Has(users[Actor(tok)].following, userId)) =>
                     /\ resp' = Response("unfollowUser", 400,
                                         "You are not following this user.", TRUE)
                     /\ users' = users

\* C12: unfollow(B) by actor A while B is not in A.following is answered 400
\* 'You are not following this user.' and leaves A.following and B.followers
\* unchanged; unfollow of a well-formed id that refers to no user is answered
\* 404.
UnfollowNotFollowingRejected == [][NotFollowingRejected]_vars

\* an unfollow of a user the caller does not follow was just refused, while the
\* caller follows somebody else
UnfollowNotFollowingRejectedWitness ==
    /\ resp = Response("unfollowUser", 400, "You are not following this user.", TRUE)
    /\ \A tok \in jwts :
         Actor(tok) # Undefined => users[Actor(tok)].following # <<>>
    /\ jwts # {}
    /\ Cardinality(DOMAIN users) = MaxUsers

FollowThenUnfollowStep ==
    (resp'.op = "followUser" /\ resp'.status = 200) =>
        \A tok \in jwts, userId \in DOMAIN users :
            (Actor(tok) # Undefined /\ followUser(tok, userId)) =>
                /\ unfollowOutcome(users', Actor(tok), userId).status = 200
                /\ unfollowOutcome(users', Actor(tok), userId).store = users

\* C13: a successful follow(B) immediately followed by a successful unfollow(B)
\* by the same actor A restores A.following and B.followers to the values they
\* had before the follow, and leaves every other user's lists untouched.
FollowUnfollowRestores == [][FollowThenUnfollowStep]_vars

\* a follow was just accepted whose target had a follower before and whose
\* caller followed somebody before
FollowUnfollowRestoresWitness ==
    /\ resp.op = "followUser"
    /\ resp.status = 200
    /\ \E a \in DOMAIN users, b \in DOMAIN users :
         /\ Len(users[a].following) >= 2
         /\ Len(users[b].followers) >= 2
         /\ users[a].following[Len(users[a].following)] = b
         /\ users[b].followers[Len(users[b].followers)] = a

\* the answer the list of this account is due for this requester: 403 when the
\* account is private and the requester is not among its followers, else 200
DueStatus(userId, requester) ==
    IF users[userId].isPrivate /\ ~Has(users[userId].followers, requester)
    THEN 403
    ELSE 200

PrivateListsStep ==
    /\ resp'.op = "getFollowers" =>
         \A tok \in jwts, userId \in DOMAIN users :
            (Actor(tok) # Undefined /\ getFollowers(tok, userId)) =>
                resp'.status = DueStatus(userId, Actor(tok))
    /\ resp'.op = "getFollowing" =>
         \A tok \in jwts, userId \in DOMAIN users :
            (Actor(tok) # Undefined /\ getFollowing(tok, userId)) =>
                resp'.status = DueStatus(userId, Actor(tok))

\* C20: getFollowers(id) and getFollowing(id) on an existing account marked
\* private are answered 403 whenever the requester is not in that account's
\* followers list, and 200 with the list when the requester is in it; on a
\* non-private existing account they are always answered 200.
PrivateListsGuarded == [][PrivateListsStep]_vars

(***************************************************************************)
(* Properties of the password reset.                                       *)
(***************************************************************************)
\* the accounts forgotPassword(email) looks up
AccountOf(email) == UsersByEmail(toLowerCase(trim(email)))

\* some account stores the token
Stored(token) ==
    \E u \in DOMAIN users :
        /\ users[u].resetPasswordToken # Undefined
        /\ users[u].resetPasswordToken = token

\* the token was issued by forgotPassword and no account stores it any more
Spent(token) == token \in 1..(nextTok - 1) /\ ~Stored(token)

\* newPassword is present, 8 to 64 characters long and free of whitespace
WellFormed(newPassword) ==
    /\ Len(newPassword) >= 8
    /\ Len(newPassword) <= 64
    /\ \A i \in 1..Len(newPassword) : newPassword[i] \notin WhiteChars

\* an account stores the token with an expiry strictly later than now
Unexpired(token) ==
    \E u \in DOMAIN users :
        /\ users[u].resetPasswordToken # Undefined
        /\ users[u].resetPasswordToken = token
        /\ users[u].resetPasswordExpires > now

\* an active account stores the token with an expiry strictly later than now
Usable(token) ==
    \E u \in DOMAIN users :
        /\ users[u].active
        /\ users[u].resetPasswordToken # Undefined
        /\ users[u].resetPasswordToken = token
        /\ users[u].resetPasswordExpires > now

\* an accepted reset: signin with the new password succeeds, signin with a
\* different password that worked before fails, and the token is stored no more
ResetRoundTripStep ==
    (resp'.op = "resetPassword" /\ resp'.status = 200) =>
        \A r \in ResetRequests :
        LET token == r[1]
            newPassword == r[2]
        IN
            resetPassword(token, newPassword, "salt2") =>
                /\ token \in 1..(nextTok - 1)
                /\ ~Stored(token)'
                /\ \A email \in ResetEmails :
                     (AccountOf(email) \cap UsersByResetToken(token) # {}) =>
                        /\ signInStatusIn(users', email, newPassword) = 200
                        /\ \A old \in ResetPasswords \cup {PwOld} :
                             (old # newPassword /\ signInStatus(email, old) = 200)
                                => signInStatusIn(users', email, old) = 401

\* a spent token stays spent, and a reset with it answers 400 and writes nothing
SpentTokenRejected ==
    /\ \A token \in 1..MaxResetTokens : Spent(token) => Spent(token)'
    /\ resp'.op = "resetPassword" =>
         \A r \in ResetRequests :
         LET token == r[1]
             newPassword == r[2]
         IN
            (Spent(token) /\ resetPassword(token, newPassword, "salt2")) =>
                (resp'.status = 400 /\ users' = users)

\* C5: after forgotPassword(email) issued token t and resetPassword(t,
\* newPassword) succeeded, signin(email, newPassword) succeeds and signin with
\* the old password fails, and every later resetPassword(t, anyPassword) is
\* rejected with 400 and does not change the password.
ResetRoundTrip == [][ResetRoundTripStep /\ SpentTokenRejected]_vars

\* a reset succeeded earlier (the new password is in place, the token cleared)
\* and a later reset was answered 400 for its token
ResetRoundTripWitness ==
    /\ resp.op = "resetPassword"
    /\ resp.status = 400
    /\ resp.message = "Invalid or expired password reset token."
    /\ \E u \in DOMAIN users :
         /\ users[u].resetPasswordToken = Undefined
         /\ comparePassword(users[u], PwNew)
         /\ ~comparePassword(users[u], PwOld)

\* C6: resetPassword(token, newPassword) with a well-formed newPassword answers
\* 200 and replaces the password if and only if an active user stores the token
\* with an expiry strictly later than the current time; an unknown token, or one
\* whose expiry has passed, is answered 400 'Invalid or expired password reset
\* token.'.
ResetSucceedsIffTokenUsable ==
    [][resp'.op = "resetPassword" =>
        \A r \in ResetRequests :
        LET token == r[1]
            newPassword == r[2]
        IN
            (WellFormed(newPassword) /\ resetPassword(token, newPassword, "salt2")) =>
                /\ (resp'.status = 200) <=> Usable(token)
                /\ Usable(token) =>
                     \A u \in DOMAIN users :
                        users[u].resetPasswordToken = token =>
                            comparePassword(users'[u], newPassword)
                /\ ~Unexpired(token) =>
                     /\ resp'.status = 400
                     /\ resp'.message = "Invalid or expired password reset token."
                     /\ users' = users]_vars

\* a reset was refused at the very instant the stored token expires
ResetSucceedsIffTokenUsableWitness ==
    /\ resp.op = "resetPassword"
    /\ resp.status = 400
    /\ resp.message = "Invalid or expired password reset token."
    /\ \A u \in DOMAIN users :
         users[u].active =>
            /\ users[u].resetPasswordToken # Undefined
            /\ users[u].resetPasswordExpires = now
    /\ \E u \in DOMAIN users : users[u].active

\* C7: every rejected resetPassword request (newPassword missing, shorter than
\* 8, longer than 64 or containing whitespace; token unknown or expired;
\* account deactivated) leaves the password hash, resetPasswordToken and
\* resetPasswordExpires as they were, so a token that was usable stays usable
\* with a corrected password.
RejectedResetChangesNothing ==
    [][resp'.op = "resetPassword" =>
        \A r \in ResetRequests :
        LET token == r[1]
            newPassword == r[2]
        IN
            ( /\ resetPassword(token, newPassword, "salt2")
              /\ \/ ~WellFormed(newPassword)
                 \/ ~Unexpired(token)
                 \/ ~Usable(token) ) =>
                /\ resp'.status = 400
                /\ users' = users
                /\ \A t \in ResetTokens :
                     Usable(t) => (Usable(t)' /\ resetStatus(t, PwNew)' = 200)]_vars

\* a too-short password was refused while an active account holds a live token
RejectedResetChangesNothingWitness ==
    /\ resp.op = "resetPassword"
    /\ resp.status = 400
    /\ resp.message = "Password must be at least 8 characters long."
    /\ \E u \in DOMAIN users :
         /\ users[u].active
         /\ users[u].resetPasswordToken # Undefined
         /\ users[u].resetPasswordExpires > now

\* the reset fields of the accounts present before and after the step
ResetFields(store, u) ==
    <<store[u].resetPasswordToken, store[u].resetPasswordExpires>>

\* C8: each user holds at most one usable reset token: a successful
\* resetPassword clears both fields, a successful forgotPassword overwrites the
\* previous token and expiry so that the earlier token resets nothing any more,
\* and the fields change in no other way.
ResetFieldsChangeOnlyOnSuccess ==
    [][\A u \in DOMAIN users \cap DOMAIN users' :
        /\ (resp'.op = "resetPassword" /\ resp'.status = 200
              /\ users'[u].password # users[u].password) =>
                ResetFields(users', u) = <<Undefined, Undefined>>
        /\ (resp'.op = "forgotPassword" /\ resp'.status = 200
              /\ ResetFields(users', u) # ResetFields(users, u)) =>
                /\ users'[u].resetPasswordToken = nextTok
                /\ users'[u].resetPasswordExpires = now + ResetTtl
                /\ \A t \in ResetTokens :
                     t # nextTok => ~(Usable(t)' /\ users'[u].resetPasswordToken = t)
        /\ ResetFields(users', u) # ResetFields(users, u) =>
                /\ resp'.op \in {"forgotPassword", "resetPassword"}
                /\ resp'.status = 200]_vars

ForgotFailureStep ==
    (resp'.op = "forgotPassword" /\ resp'.status # 200) =>
        /\ DOMAIN users' = DOMAIN users
        /\ \A u \in DOMAIN users : ResetFields(users', u) = ResetFields(users, u)

\* C29: forgotPassword changes a user's resetPasswordToken and
\* resetPasswordExpires only when it answers 200: when the email dispatch
\* fails and the answer is 500, the reset-token fields are the same as before
\* the request, so that a failed request leaves no usable token behind.
ForgotFailureLeavesNoToken == [][ForgotFailureStep]_vars

(***************************************************************************)
(* Properties of deleted accounts.                                         *)
(***************************************************************************)
\* C21: after deleteUser(u) succeeds, u's id is in no remaining user's
\* followers or following list: every id stored in a list refers to an
\* existing user.
NoDanglingFollowIds ==
    \A u \in DOMAIN users :
        /\ \A i \in DOMAIN users[u].following :
              users[u].following[i] \in DOMAIN users
        /\ \A i \in DOMAIN users[u].followers :
              users[u].followers[i] \in DOMAIN users

\* the token is validly signed and unexpired, and the user it was issued to
\* has been deleted
Orphaned(tok) ==
    /\ jwtVerify(tok)
    /\ tok.sub \in 1..(nextId - 1)
    /\ tok.sub \notin DOMAIN users

DeletedActorStep ==
    \A tok \in jwts, userId \in PathIds :
        ( /\ Orphaned(tok)
          /\ \/ deleteUser(tok, userId)
             \/ followUser(tok, userId)
             \/ unfollowUser(tok, userId)
             \/ \E body \in RoleUpdateBodies :
                   templateUpdateUser(tok, userId, body) ) =>
            /\ users' = users
            /\ resp'.status \notin 200..299
            /\ protect(tok).pass
            /\ protect(tok).user = Undefined

\* C28: after a user has been deleted, a request with that user's unexpired,
\* validly signed token never changes the store and never gets a 2xx answer
\* from update, delete, follow or unfollow, although protect passes it on with
\* a null acting identity instead of answering 401.
DeletedActorPowerless == [][DeletedActorStep]_vars

\* a follow sent with the token of a deleted user was just answered 500 while
\* another account exists
DeletedActorPowerlessWitness ==
    /\ resp = Response("followUser", 500, "Internal Server Error.", TRUE)
    /\ jwts # {}
    /\ \A tok \in jwts : Orphaned(tok) /\ tok.idf = "id"
    /\ users # <<>>

(***************************************************************************)
(* Properties of roles and restricted fields.                              *)
(***************************************************************************)
\* the actor is authenticated and is the target or, by the stored role, an
\* administrator
OwnerOrAdmin(tok, userId) ==
    /\ Actor(tok) # Undefined
    /\ (Actor(tok) = userId \/ users[Actor(tok)].role = "admin")

PasswordUpdateStep ==
    \A tok \in jwts, userId \in DOMAIN users, body \in RoleUpdateBodies :
        templateUpdateUser(tok, userId, body) =>
            /\ (OwnerOrAdmin(tok, userId) /\ body.password # <<>>) =>
                  /\ resp'.status = 400
                  /\ resp'.message = "Password update not allowed"
                  /\ users' = users
            /\ "_id" \in DOMAIN body =>
                  /\ DOMAIN users' = DOMAIN users
                  /\ \A u \in DOMAIN users : u # userId => users'[u] = users[u]

Answered == {r \in pending : r.slot \notin {q.slot : q \in pending'}}

\* a follow or unfollow that answers with a failure has saved nothing
FailedSavedNothing ==
    \A r \in Answered :
        (r.op \in {"followUser", "unfollowUser"} /\ resp'.status # 200) =>
            r.pc = "saveCurrent"

\* C23: under every interleaving of concurrent follow, unfollow and delete
\* requests (each a read of actor and target followed by two separate
\* document writes) the lists are mutually symmetric and hold no id twice
\* (looked at when no request is in flight), and no request that reported
\* failure has left one of the two lists modified.
RacingKeepsListsConsistent ==
    /\ [](pending = {} => (FollowListsSymmetric /\ NoIdTwice))
    /\ [][FailedSavedNothing]_vars

\* a reset that is answered 200 finds its token still stored: it is the one
\* request that consumes the token, and the password stored is its own
ResetConsumesStoredToken ==
    \A r \in Answered :
        (r.op = "resetPassword" /\ resp'.status = 200) =>
            /\ Exists(r.cur)
            /\ users[r.cur].resetPasswordToken = r.token
            /\ comparePassword(users'[r.cur], r.password)

\* C24: of two concurrent resetPassword requests that carry the same valid
\* token at most one is answered 200 and the stored password is that
\* request's; the token is consumed exactly once, even when the token lookup
\* of the second request runs before the save of the first.
ResetTokenConsumedOnce == [][ResetConsumesStoredToken]_vars

HashedOnceStep ==
    \A token \in ResetTokens, newPassword \in {PwOld, PwNew} :
        ( /\ resetPasswordHashing(token, newPassword, "salt1", "salt2")
          /\ resp'.status = 200 ) =>
            \A u \in UsersByResetToken(token) :
                /\ comparePassword(users'[u], newPassword)
                /\ signInStatusIn(users', users'[u].email, newPassword) = 200

\* C30: in the resetPassword variant that hashes newPassword itself before
\* it calls save, the password stored after a successful reset is newPassword
\* hashed exactly once, so that comparePassword(newPassword) is true and a
\* following signin with newPassword succeeds.
ResetStoresSingleHash == [][HashedOnceStep]_vars

(***************************************************************************)
(* Properties of the signed-in identity.                                   *)
(***************************************************************************)
\* the token a successful signin hands out is let through by protect, with
\* req.user the user in the answer's body
SigninTokenStep ==
    (resp'.op = "signin" /\ resp'.status = 200) =>
        \A tok \in jwts' \ jwts :
            /\ protect(tok).pass
            /\ protect(tok).user # Undefined
            /\ \E d \in resp'.body : d.id = protect(tok).user

\* C25: a token returned by a successful signin and presented before its
\* expiry to a protected endpoint resolves the acting identity to the user
\* who signed in: the payload field signin stores the subject in is the field
\* protect reads, so req.user is that user and never null.
SigninTokenResolves == [][SigninTokenStep]_vars

\* the token says admin and the stored role of its user is user
ClaimsAdmin(tok) ==
    /\ tok.role = "admin"
    /\ Actor(tok) # Undefined
    /\ users[Actor(tok)].role = "user"

StoredRoleStep ==
    \A tok \in jwts, userId \in DOMAIN users :
        (ClaimsAdmin(tok) /\ userId # Actor(tok)) =>
            /\ deleteUser(tok, userId) => (resp'.status = 403 /\ users' = users)
            /\ getUserById(tok, userId) => (resp'.status = 403 /\ resp'.body = {})

\* C26: admin privilege is decided from the role stored on the acting user's
\* record at the time of the request, never from the role in the token: a
\* validly signed token that says admin for a user whose stored role is user
\* is refused (403) when deleting or reading another user, so an admin whose
\* stored role is changed to user loses the privilege on the next request
\* with the same token.
StoredRoleDecides == [][StoredRoleStep]_vars

\* a former administrator, whose token still says admin, was just refused the
\* deletion of another user
StoredRoleDecidesWitness ==
    /\ resp = Response("deleteUser", 403, "Access denied", TRUE)
    /\ jwts # {}
    /\ \A tok \in jwts : ClaimsAdmin(tok)
    /\ Cardinality(DOMAIN users) > 1

RoleChangeStep ==
    \A tok \in jwts, userId \in DOMAIN users, body \in RoleUpdateBodies :
        ( /\ Actor(tok) # Undefined
          /\ users[Actor(tok)].role = "user"
          /\ templateUpdateUser(tok, userId, body) ) =>
            \A u \in DOMAIN users : users'[u].role = users[u].role

\* C27: no update request made by an actor whose stored role is user changes
\* the role of any user, the actor's own included: only an actor whose role is
\* admin can change a role through updateUser.
OnlyAdminChangesRole == [][RoleChangeStep]_vars

====
